---- MODULE Spec2Model ----
(***************************************************************************)
(* Dynamic context pruning: the prune/inventory engine of the OpenClaw     *)
(* extension (core.js, tools.js, state.js, config.js) as a state machine.  *)
(*                                                                         *)
(* JavaScript values are encoded as follows.                               *)
(*   - a string is a TLA+ string; a property that is absent (undefined)    *)
(*     is the string Undefined, which no host produces;                    *)
(*   - a file path or a glob pattern is a sequence of one-character        *)
(*     strings, so that globMatch can be computed character by character;  *)
(*     an absent path is UndefinedPath;                                    *)
(*   - an object (input, meta, raw config) is a function from property     *)
(*     names to values; an absent object is UndefinedObj;                  *)
(*   - a Map is a function whose DOMAIN is the set of keys.                *)
(* Date.now() (the `at` field of the records) is not modelled: no          *)
(* operation reads it.                                                     *)
(***************************************************************************)
EXTENDS Integers, Sequences, FiniteSets, TLC

\* Bounds of the model.
MaxMsgs == 3      \* messages the host produces in SpecSweep and SpecInventory
MaxFew == 2       \* messages the host produces in Spec, the whole machine
MaxIDs == 2       \* length of the messageIDs argument of pruneByIDs

\* Sequences over S of length lo..hi
SeqsOf(S, lo, hi) == UNION {[1..n -> S] : n \in lo..hi}

Undefined == "<undefined>"
UndefinedPath == <<"<undefined>">>
UndefinedObj == [undefined |-> TRUE]

IsString(v) == v # Undefined
IsObject(v) == v # UndefinedObj

\* String.prototype.toLowerCase on the tool names and ids that occur.
ToLowerCase(s) ==
    CASE s = "Read" -> "read"
      [] s = "READ" -> "read"
      [] s = "Grep" -> "grep"
      [] s = "DCP_Prune" -> "dcp_prune"
      [] s = "C1" -> "c1"
      [] s = "Ls" -> "ls"
      [] OTHER -> s

\* core.js: DEFAULT_PROTECTED_TOOLS
DEFAULT_PROTECTED_TOOLS == {"dcp_prune", "dcp_distill"}

Range(s) == {s[i] : i \in 1..Len(s)}

(***************************************************************************)
(* config.js                                                               *)
(***************************************************************************)
\* asStringArray: a non-array gives [], and empty strings are dropped.
\* A raw property that is present is an array of strings here; `empty` is
\* the empty string in the encoding of the array's items.
asStringArray(raw, key, empty) ==
    IF key \notin DOMAIN raw THEN <<>>
    ELSE LET NonEmpty(item) == item # empty
         IN SelectSeq(raw[key], NonEmpty)

normalizeConfig(raw) ==
    [enabled |-> IF "enabled" \in DOMAIN raw THEN raw.enabled ELSE TRUE,
     protectedTools |-> asStringArray(raw, "protectedTools", ""),
     protectedFilePatterns |-> asStringArray(raw, "protectedFilePatterns", <<>>),
     commands |-> [enabled |-> IF "commands" \in DOMAIN raw
                               THEN raw.commands.enabled ELSE TRUE]]

\* The raw configurations a host may hand to the extension.
RawConfigs ==
    { [protectedTools |-> <<"", "READ">>,
       protectedFilePatterns |-> <<<<"*", "/", "k">>, <<"*", "*", "/", "k">>>>],
      [enabled |-> TRUE,
       protectedTools |-> <<"READ">>,
       protectedFilePatterns |-> <<<<"*", "/", "k">>, <<>>, <<"*", "*", "/", "k">>>>,
       commands |-> [enabled |-> TRUE]] }

(***************************************************************************)
(* core.js: protection policy                                              *)
(***************************************************************************)
\* globMatch: "**" becomes ".*", a remaining "*" becomes "[^/]*", every
\* other character of the pattern is literal; the match is anchored.
RECURSIVE GlobFrom(_, _, _, _)
GlobFrom(value, i, pattern, j) ==
    IF j > Len(pattern) THEN i > Len(value)
    ELSE IF pattern[j] = "*" /\ j < Len(pattern) /\ pattern[j + 1] = "*"
    THEN \E k \in i..(Len(value) + 1) : GlobFrom(value, k, pattern, j + 2)
    ELSE IF pattern[j] = "*"
    THEN \E k \in i..(Len(value) + 1) :
            /\ \A n \in i..(k - 1) : value[n] # "/"
            /\ GlobFrom(value, k, pattern, j + 1)
    ELSE /\ i <= Len(value)
         /\ value[i] = pattern[j]
         /\ GlobFrom(value, i + 1, pattern, j + 1)

globMatch(value, pattern) == GlobFrom(value, 1, pattern, 1)

inferFilePath(message) ==
    IF message.filePath # UndefinedPath THEN message.filePath
    ELSE IF IsObject(message.input) /\ "filePath" \in DOMAIN message.input
    THEN message.input.filePath
    ELSE IF IsObject(message.input) /\ "path" \in DOMAIN message.input
    THEN message.input.path
    ELSE <<>>

\* A test that takes every message for a tool output.
isToolLikeMessageAny(message) == TRUE

isToolLikeMessage(message) ==
    message.role = "tool" \/ IsString(message.toolName)

\* A protection test that compares the configured tool names as written,
\* without lower-casing them.
isProtectedMessageExact(message, config) ==
    LET toolName == IF IsString(message.toolName)
                    THEN ToLowerCase(message.toolName) ELSE ""
        filePath == inferFilePath(message)
    IN IF toolName \in DEFAULT_PROTECTED_TOOLS THEN TRUE
       ELSE IF toolName # "" /\ toolName \in Range(config.protectedTools) THEN TRUE
       ELSE IF filePath = <<>> THEN FALSE
       ELSE \E pattern \in Range(config.protectedFilePatterns) :
               globMatch(filePath, pattern)

isProtectedMessage(message, config) ==
    LET toolName == IF IsString(message.toolName)
                    THEN ToLowerCase(message.toolName) ELSE ""
        protectedTools == {ToLowerCase(name) : name \in Range(config.protectedTools)}
        filePath == inferFilePath(message)
    IN IF toolName \in DEFAULT_PROTECTED_TOOLS THEN TRUE
       ELSE IF toolName # "" /\ toolName \in protectedTools THEN TRUE
       ELSE IF filePath = <<>> THEN FALSE
       ELSE \E pattern \in Range(config.protectedFilePatterns) :
               globMatch(filePath, pattern)

estimateChars(value) ==
    IF value = Undefined THEN 0 ELSE Len(value)

\* Math.ceil(chars / 4)
estimateTokens(chars) ==
    IF chars <= 0 THEN 0 ELSE (chars + 3) \div 4

\* The index of the first message of role user, 0 when there is none.
firstUserIndex(messages) ==
    LET users == {i \in 1..Len(messages) : messages[i].role = "user"}
    IN IF users = {} THEN 0 ELSE CHOOSE i \in users : \A k \in users : i <= k

lastUserIndex(messages) ==
    LET users == {i \in 1..Len(messages) : messages[i].role = "user"}
    IN IF users = {} THEN 0 ELSE CHOOSE i \in users : \A k \in users : k <= i

(***************************************************************************)
(* The messages of the host runtime                                        *)
(***************************************************************************)
\* The shapes of message a host produces: a user turn, tool results with
\* and without a tool name, with and without a file path in their input,
\* a result of the pruning tool itself, and an assistant turn.
Kinds == {"user", "grep", "raw", "read", "keep", "self", "note"}

Template(kind) ==
    CASE kind = "user" ->
           [role |-> "user", toolName |-> Undefined, content |-> "hi",
            filePath |-> UndefinedPath, input |-> UndefinedObj, meta |-> UndefinedObj]
      [] kind = "grep" ->
           [role |-> "assistant", toolName |-> "Grep", content |-> "yyy",
            filePath |-> UndefinedPath, input |-> UndefinedObj,
            meta |-> [note |-> "n"]]
      [] kind = "raw" ->
           [role |-> "tool", toolName |-> Undefined, content |-> "z",
            filePath |-> <<"/", "t", "/", "d">>,
            input |-> [filePath |-> <<"/", "t", "/", "k">>], meta |-> UndefinedObj]
      [] kind = "read" ->
           [role |-> "tool", toolName |-> "Read", content |-> "rrrrr",
            filePath |-> UndefinedPath, input |-> [path |-> <<"/", "t", "/", "d">>],
            meta |-> UndefinedObj]
      [] kind = "keep" ->
           [role |-> "tool", toolName |-> "bash", content |-> "kk",
            filePath |-> UndefinedPath, input |-> [filePath |-> <<"/", "t", "/", "k">>],
            meta |-> UndefinedObj]
      [] kind = "self" ->
           [role |-> "tool", toolName |-> "DCP_Prune", content |-> "pppp",
            filePath |-> UndefinedPath, input |-> UndefinedObj, meta |-> UndefinedObj]
      [] OTHER ->
           [role |-> "assistant", toolName |-> Undefined, content |-> Undefined,
            filePath |-> UndefinedPath, input |-> UndefinedObj, meta |-> UndefinedObj]

\* The id the host gives its n-th message.
MsgID(n) == "m" \o ToString(n)
MsgIDs == {MsgID(n) : n \in 1..MaxMsgs}

NewMessage(n, kind) ==
    LET t == Template(kind)
    IN [id |-> MsgID(n), role |-> t.role, toolName |-> t.toolName,
        content |-> t.content, filePath |-> t.filePath, input |-> t.input,
        meta |-> t.meta]

(***************************************************************************)
(* state.js                                                                *)
(***************************************************************************)
EmptyMap == [k \in {} |-> Undefined]

createState ==
    [prunedByID |-> EmptyMap,
     idMap |-> EmptyMap,
     distillationBySourceID |-> EmptyMap,
     distillations |-> <<>>,
     inventory |-> [signature |-> "", entries |-> <<>>,
                    numericToMessageID |-> EmptyMap,
                    messageToNumericID |-> EmptyMap],
     counters |-> [prunedMessages |-> 0, prunedChars |-> 0,
                   distillations |-> 0, sweeps |-> 0]]

(***************************************************************************)
(* core.js: pruneByIDs                                                     *)
(***************************************************************************)
\* new Map(messages.map(m => [m.id, m])).get(id): the last message with
\* that id, UndefinedObj when there is none.
messagesByID(messages, messageID) ==
    LET at == {i \in 1..Len(messages) : messages[i].id = messageID}
    IN IF at = {} THEN UndefinedObj
       ELSE messages[CHOOSE i \in at : \A k \in at : k <= i]

\* The accumulator of pruneByIDs: the two parts of the state it writes and
\* the three lists it returns.
PruneStart(prunedByID, counters) ==
    [prunedByID |-> prunedByID, counters |-> counters,
     prunedIDs |-> <<>>, protectedIDs |-> <<>>, missingIDs |-> <<>>]

\* A turn of the loop that lacks the test of lines 69-71: it records and
\* counts an id whether or not the id has a record.
pruneOneAgain(messages, config, messageID, reason, distillationID, acc) ==
    LET message == messagesByID(messages, messageID)
    IN IF message = UndefinedObj
       THEN [acc EXCEPT !.missingIDs = Append(@, messageID)]
       ELSE IF isProtectedMessage(message, config)
       THEN [acc EXCEPT !.protectedIDs = Append(@, messageID)]
       ELSE LET chars == estimateChars(message.content)
            IN [acc EXCEPT
                  !.prunedByID = (messageID :> [reason |-> reason,
                                                toolName |-> message.toolName,
                                                chars |-> chars,
                                                distillationID |-> distillationID]) @@ @,
                  !.prunedIDs = Append(@, messageID),
                  !.counters.prunedMessages = @ + 1,
                  !.counters.prunedChars = @ + chars]

\* One turn of the loop of pruneByIDs (lines 63-89).
pruneOne(messages, config, messageID, reason, distillationID, acc) ==
    LET message == messagesByID(messages, messageID)
    IN IF message = UndefinedObj
       THEN [acc EXCEPT !.missingIDs = Append(@, messageID)]
       ELSE IF messageID \in DOMAIN acc.prunedByID
       THEN acc
       ELSE IF isProtectedMessage(message, config)
       THEN [acc EXCEPT !.protectedIDs = Append(@, messageID)]
       ELSE LET chars == estimateChars(message.content)
            IN [acc EXCEPT
                  !.prunedByID = (messageID :> [reason |-> reason,
                                                toolName |-> message.toolName,
                                                chars |-> chars,
                                                distillationID |-> distillationID]) @@ @,
                  !.prunedIDs = Append(@, messageID),
                  !.counters.prunedMessages = @ + 1,
                  !.counters.prunedChars = @ + chars]

RECURSIVE pruneLoop(_, _, _, _, _, _)
pruneLoop(messages, config, messageIDs, reason, distillationID, acc) ==
    IF messageIDs = <<>> THEN acc
    ELSE pruneLoop(messages, config, Tail(messageIDs), reason, distillationID,
                   pruneOne(messages, config, Head(messageIDs), reason,
                            distillationID, acc))

pruneByIDs(messages, prunedByID, counters, rawConfig, messageIDs, reason, distillationID) ==
    pruneLoop(messages, normalizeConfig(rawConfig), messageIDs, reason,
              distillationID, PruneStart(prunedByID, counters))

(***************************************************************************)
(* core.js: sweep                                                          *)
(***************************************************************************)
\* The ids of the messages of `messages` at the indexes of `indexes`, in
\* document order.
RECURSIVE IDsAt(_, _, _)
IDsAt(messages, indexes, from) ==
    IF from > Len(messages) THEN <<>>
    ELSE (IF from \in indexes THEN <<messages[from].id>> ELSE <<>>)
         \o IDsAt(messages, indexes, from + 1)

\* A collection that leaves the protected messages among the candidates.
collectSweepCandidatesUnfiltered(messages, prunedByID, rawConfig) ==
    LET startIndex == lastUserIndex(messages)
        picked == {index \in (startIndex + 1)..Len(messages) :
                      /\ isToolLikeMessage(messages[index])
                      /\ messages[index].id \notin DOMAIN prunedByID}
    IN IDsAt(messages, picked, 1)

collectSweepCandidates(messages, prunedByID, rawConfig) ==
    LET config == normalizeConfig(rawConfig)
        startIndex == lastUserIndex(messages)
        picked == {index \in (startIndex + 1)..Len(messages) :
                      /\ isToolLikeMessage(messages[index])
                      /\ messages[index].id \notin DOMAIN prunedByID
                      /\ ~isProtectedMessage(messages[index], config)}
    IN IDsAt(messages, picked, 1)

\* A limit is [kind |-> "undefined"] or [kind |-> "number", n |-> an integer];
\* every number of the model is finite. The usedLimit of a result is such a
\* number or NullLimit.
NoLimit == [kind |-> "undefined"]
NullLimit == [kind |-> "null"]
NumberLimit(n) == [kind |-> "number", n |-> n]
IsUsableLimit(limit) == limit.kind = "number" /\ limit.n > 0

\* Array.prototype.slice(0, n) for n > 0
SliceFirst(s, n) ==
    IF n >= Len(s) THEN s ELSE SubSeq(s, 1, n)

\* Array.prototype.slice(-n) for n > 0
SliceLast(s, n) ==
    IF n >= Len(s) THEN s ELSE SubSeq(s, Len(s) - n + 1, Len(s))

\* A sweep counted whether or not it pruned.
SweepReplyCounted(limit, candidates, result) ==
    [prunedByID |-> result.prunedByID,
     counters |-> [result.counters EXCEPT !.sweeps = @ + 1],
     prunedIDs |-> result.prunedIDs,
     protectedIDs |-> result.protectedIDs,
     missingIDs |-> result.missingIDs,
     candidates |-> candidates,
     candidateCount |-> Len(candidates),
     usedLimit |-> IF IsUsableLimit(limit) THEN limit ELSE NullLimit]

\* Lines 113-122 of sweep: what it returns and the parts of the state it
\* leaves, from the candidates and the result of pruneByIDs on the capped list.
SweepReply(limit, candidates, result) ==
    [prunedByID |-> result.prunedByID,
     counters |-> IF Len(result.prunedIDs) > 0
                  THEN [result.counters EXCEPT !.sweeps = @ + 1]
                  ELSE result.counters,
     prunedIDs |-> result.prunedIDs,
     protectedIDs |-> result.protectedIDs,
     missingIDs |-> result.missingIDs,
     candidates |-> candidates,
     candidateCount |-> Len(candidates),
     usedLimit |-> IF IsUsableLimit(limit) THEN limit ELSE NullLimit]

\* A cap that takes a limit that is no positive number for the limit 1.
SweepCandidatesOneByOne(messages, prunedByID, counters, config, limit, candidates) ==
    SweepReply(limit, candidates,
               pruneByIDs(messages, prunedByID, counters, config,
                          IF IsUsableLimit(limit)
                          THEN SliceLast(candidates, limit.n)
                          ELSE SliceLast(candidates, 1),
                          "sweep", Undefined))

\* Lines 108-113 of sweep: the cap and the call of pruneByIDs.
SweepCandidates(messages, prunedByID, counters, config, limit, candidates) ==
    SweepReply(limit, candidates,
               pruneByIDs(messages, prunedByID, counters, config,
                          IF IsUsableLimit(limit)
                          THEN SliceLast(candidates, limit.n) ELSE candidates,
                          "sweep", Undefined))

sweep(messages, prunedByID, counters, rawConfig, limit) ==
    SweepCandidates(messages, prunedByID, counters, normalizeConfig(rawConfig), limit,
                    collectSweepCandidates(messages, prunedByID,
                                           normalizeConfig(rawConfig)))

(***************************************************************************)
(* core.js: the inventory                                                  *)
(***************************************************************************)
\* Array.prototype.join
RECURSIVE Join(_, _)
Join(parts, sep) ==
    IF parts = <<>> THEN ""
    ELSE IF Len(parts) = 1 THEN parts[1]
    ELSE parts[1] \o sep \o Join(Tail(parts), sep)

\* Lines 159-180: the entries of the prunable messages, in document order.
RECURSIVE PrunableEntries(_, _, _)
PrunableEntries(messages, prunedByID, config) ==
    IF messages = <<>> THEN <<>>
    ELSE LET message == Head(messages)
             rest == PrunableEntries(Tail(messages), prunedByID, config)
             chars == estimateChars(message.content)
         IN IF ~isToolLikeMessage(message) THEN rest
            ELSE IF message.id \in DOMAIN prunedByID THEN rest
            ELSE IF isProtectedMessage(message, config) THEN rest
            ELSE <<[messageID |-> message.id,
                    role |-> IF IsString(message.role) THEN message.role ELSE "",
                    toolName |-> IF IsString(message.toolName)
                                 THEN message.toolName ELSE "",
                    chars |-> chars,
                    estimatedTokens |-> estimateTokens(chars)]>> \o rest

\* Line 182
Signature(entries) ==
    Join([i \in 1..Len(entries) |->
             entries[i].messageID \o ":" \o ToString(entries[i].chars)], "|")

\* Lines 190-209: the inventory built from the entries; a later set() of
\* the same key overwrites an earlier one.
BuildInventory(entries) ==
    LET numbers == {ToString(i) : i \in 1..Len(entries)}
        ids == {entries[i].messageID : i \in 1..Len(entries)}
        Last(S) == CHOOSE i \in S : \A k \in S : k <= i
    IN [signature |-> Signature(entries),
        entries |-> [i \in 1..Len(entries) |->
                        [id |-> ToString(i),
                         messageID |-> entries[i].messageID,
                         role |-> entries[i].role,
                         toolName |-> entries[i].toolName,
                         chars |-> entries[i].chars,
                         estimatedTokens |-> entries[i].estimatedTokens]],
        numericToMessageID |->
            [n \in numbers |->
                entries[CHOOSE i \in 1..Len(entries) : ToString(i) = n].messageID],
        messageToNumericID |->
            [m \in ids |->
                ToString(Last({i \in 1..Len(entries) : entries[i].messageID = m}))]]

\* A cache test that compares the lengths only.
InventoryForLength(inventory, entries) ==
    IF Len(inventory.entries) = Len(entries)
    THEN [inventory |-> inventory, entries |-> inventory.entries, rebuilt |-> FALSE]
    ELSE [inventory |-> BuildInventory(entries),
          entries |-> BuildInventory(entries).entries, rebuilt |-> TRUE]

\* A query without a cache: it builds the inventory at every call.
InventoryForFresh(inventory, entries) ==
    [inventory |-> BuildInventory(entries),
     entries |-> BuildInventory(entries).entries, rebuilt |-> TRUE]

\* Lines 182-211 of getPrunableInventory: the inventory it leaves in the
\* state, the list it returns, and whether it rebuilt the inventory or
\* returned the cached list.
InventoryFor(inventory, entries) ==
    IF inventory.signature = Signature(entries)
       /\ Len(inventory.entries) = Len(entries)
    THEN [inventory |-> inventory, entries |-> inventory.entries, rebuilt |-> FALSE]
    ELSE [inventory |-> BuildInventory(entries),
          entries |-> BuildInventory(entries).entries, rebuilt |-> TRUE]

getPrunableInventory(messages, prunedByID, inventory, rawConfig) ==
    InventoryFor(inventory,
                 PrunableEntries(messages, prunedByID, normalizeConfig(rawConfig)))

RECURSIVE resolveInventoryMessageIDs(_, _)
resolveInventoryMessageIDs(inventory, ids) ==
    IF ids = <<>> THEN [resolvedMessageIDs |-> <<>>, missingIDs |-> <<>>]
    ELSE LET id == Head(ids)
             rest == resolveInventoryMessageIDs(inventory, Tail(ids))
             found == id \in DOMAIN inventory.numericToMessageID
                      /\ inventory.numericToMessageID[id] # ""
         IN IF ~found
            THEN [rest EXCEPT !.missingIDs = <<id>> \o @]
            ELSE [rest EXCEPT !.resolvedMessageIDs =
                                 <<inventory.numericToMessageID[id]>> \o @]

(***************************************************************************)
(* core.js: createDistillation                                             *)
(***************************************************************************)
\* A createDistillation that leaves counters.distillations as it is.
createDistillationUncounted(distillations, distillationBySourceID, counters, messageIDs, summary) ==
    LET id == "dcp-distill-" \o ToString(counters.distillations + 1)
        record == [id |-> id, sourceMessageIDs |-> messageIDs, summary |-> summary]
    IN [record |-> record,
        distillations |-> Append(distillations, record),
        counters |-> counters,
        distillationBySourceID |->
            [m \in DOMAIN distillationBySourceID \cup Range(messageIDs) |->
                IF m \in Range(messageIDs) THEN id ELSE distillationBySourceID[m]]]

createDistillation(distillations, distillationBySourceID, counters, messageIDs, summary) ==
    LET id == "dcp-distill-" \o ToString(counters.distillations + 1)
        record == [id |-> id, sourceMessageIDs |-> messageIDs, summary |-> summary]
    IN [record |-> record,
        distillations |-> Append(distillations, record),
        counters |-> [counters EXCEPT !.distillations = @ + 1],
        distillationBySourceID |->
            [m \in DOMAIN distillationBySourceID \cup Range(messageIDs) |->
                IF m \in Range(messageIDs) THEN id ELSE distillationBySourceID[m]]]

(***************************************************************************)
(* core.js: createTransformedView                                          *)
(***************************************************************************)
cloneMessage(message) ==
    [message EXCEPT !.meta = IF IsObject(@) THEN @ ELSE UndefinedObj,
                    !.input = IF IsObject(@) THEN @ ELSE UndefinedObj]

\* A placeholder that never names the distillation.
PlaceholderPlain(messageID, prunedRecord) ==
    "[dcp-pruned id=" \o messageID \o " reason=" \o prunedRecord.reason \o "]"

\* Lines 27-33
Placeholder(messageID, prunedRecord) ==
    LET distillationText == IF IsString(prunedRecord.distillationID)
                            THEN " distilled=" \o prunedRecord.distillationID
                            ELSE ""
    IN "[dcp-pruned id=" \o messageID \o " reason=" \o prunedRecord.reason
       \o distillationText \o "]"

\* { ...(message.meta || {}), dcp: {...} }
WithDcpMeta(meta, dcp) ==
    LET base == IF IsObject(meta) THEN meta ELSE EmptyMap
    IN [k \in DOMAIN base \cup {"dcp"} |-> IF k = "dcp" THEN dcp ELSE base[k]]

\* A callback that marks a pruned message in meta.dcp and keeps its content.
TransformMessageMarked(message, prunedByID) ==
    IF ~IsString(message.id) THEN cloneMessage(message)
    ELSE IF message.id \notin DOMAIN prunedByID THEN cloneMessage(message)
    ELSE LET prunedRecord == prunedByID[message.id]
         IN [cloneMessage(message) EXCEPT
               !.meta = WithDcpMeta(message.meta,
                           [pruned |-> TRUE,
                            originalID |-> message.id,
                            reason |-> prunedRecord.reason,
                            distillationID |-> prunedRecord.distillationID])]

\* The callback of messages.map (lines 10-44): the message of the view.
TransformMessage(message, prunedByID) ==
    IF ~IsString(message.id) THEN cloneMessage(message)
    ELSE IF message.id \notin DOMAIN prunedByID THEN cloneMessage(message)
    ELSE LET prunedRecord == prunedByID[message.id]
         IN [cloneMessage(message) EXCEPT
               !.content = Placeholder(message.id, prunedRecord),
               !.meta = WithDcpMeta(message.meta,
                           [pruned |-> TRUE,
                            originalID |-> message.id,
                            reason |-> prunedRecord.reason,
                            distillationID |-> prunedRecord.distillationID])]

\* An entry that keeps the flag of a message without a record.
IDMapEntryUnpruned(messageID, prunedByID) ==
    [originalID |-> messageID, transformedID |-> messageID, pruned |-> FALSE]

\* The entry of idMap the callback writes for a message with a string id.
IDMapEntry(messageID, prunedByID) ==
    [originalID |-> messageID, transformedID |-> messageID,
     pruned |-> messageID \in DOMAIN prunedByID]

\* createTransformedView: the view it returns and the idMap it leaves.
createTransformedView(messages, prunedByID, idMap) ==
    LET seen == {messages[i].id : i \in {k \in 1..Len(messages) : IsString(messages[k].id)}}
    IN [view |-> [i \in 1..Len(messages) |-> TransformMessage(messages[i], prunedByID)],
        idMap |-> [id \in DOMAIN idMap \cup seen |->
                      IF id \in seen THEN IDMapEntry(id, prunedByID) ELSE idMap[id]]]

(***************************************************************************)
(* tools.js                                                                *)
(*                                                                         *)
(* The argument of a tool is an object; its ids / targets property is      *)
(* absent, or a value tagged with its JavaScript type: [t |-> "array",     *)
(* v |-> a sequence] or [t |-> "string", s |-> a string].                 *)
(***************************************************************************)
ArrayValue(v) == [t |-> "array", v |-> v]
StringValue(v) == [t |-> "string", s |-> v]
UndefinedValue == [t |-> "undefined"]

Property(object, key) ==
    IF key \in DOMAIN object THEN object[key] ELSE UndefinedValue

\* A filter that keeps the empty strings of the array.
normalizeIDsAny(value) ==
    IF value.t # "array" THEN <<>> ELSE value.v

normalizeIDs(value) ==
    IF value.t # "array" THEN <<>>
    ELSE LET NonEmpty(id) == id # "" IN SelectSeq(value.v, NonEmpty)

\* String.prototype.trim on the distillation texts that occur.
Trim(text) ==
    CASE text = " s1 " -> "s1"
      [] text = "  " -> ""
      [] OTHER -> text

DefaultDistillation == "Distilled context summary was not provided by the caller."

\* The loop of normalizeTargets (lines 139-157); a raw target is an object
\* whose id and distillation properties are strings or absent.
RECURSIVE normalizeTargetsFrom(_, _)
normalizeTargetsFrom(raw, seenIDs) ==
    IF raw = <<>> THEN <<>>
    ELSE LET target == Head(raw)
             id == IF "id" \in DOMAIN target THEN target.id ELSE ""
             distillation ==
                 IF "distillation" \in DOMAIN target /\ Len(Trim(target.distillation)) > 0
                 THEN Trim(target.distillation)
                 ELSE DefaultDistillation
         IN IF id = "" THEN normalizeTargetsFrom(Tail(raw), seenIDs)
            ELSE IF id \in seenIDs THEN normalizeTargetsFrom(Tail(raw), seenIDs)
            ELSE <<[id |-> id, distillation |-> distillation]>>
                 \o normalizeTargetsFrom(Tail(raw), seenIDs \cup {id})

normalizeTargets(value) ==
    IF value.t # "array" THEN <<>> ELSE normalizeTargetsFrom(value.v, {})

\* The state with the parts pruneByIDs or sweep has written.
Pruned(state, result) ==
    [state EXCEPT !.prunedByID = result.prunedByID, !.counters = result.counters]

\* summarizeView: the summary it returns and the state it leaves (the view
\* refreshes idMap, the inventory query refreshes the inventory).
IsPrunedInView(message) ==
    /\ IsObject(message.meta)
    /\ "dcp" \in DOMAIN message.meta
    /\ message.meta.dcp.pruned

SummaryOf(state, transformed, inventory) ==
    [state |-> [state EXCEPT !.idMap = transformed.idMap,
                             !.inventory = inventory.inventory],
     summary |-> [totalMessages |-> Len(transformed.view),
                  prunedMessages |-> Len(SelectSeq(transformed.view, IsPrunedInView)),
                  prunableInventorySize |-> Len(inventory.entries)]]

summarizeView(messages, state, config) ==
    SummaryOf(state,
              createTransformedView(messages, state.prunedByID, state.idMap),
              getPrunableInventory(messages, state.prunedByID, state.inventory, config))

\* Lines 21 and 62: the state after the inventory query that opens a tool.
WithInventory(messages, state, config) ==
    [state EXCEPT !.inventory =
        getPrunableInventory(messages, state.prunedByID, state.inventory, config).inventory]

\* Lines 30-36: the reply of dcp_prune in sweep mode.
SweepModeReply(result, after) ==
    [state |-> after.state,
     result |-> [ok |-> TRUE, tool |-> "dcp_prune", mode |-> "sweep",
                 prunedIDs |-> result.prunedIDs,
                 protectedIDs |-> result.protectedIDs,
                 missingIDs |-> result.missingIDs,
                 candidateCount |-> result.candidateCount,
                 usedLimit |-> result.usedLimit,
                 transformedView |-> after.summary]]

\* Lines 49-57: the reply of dcp_prune in inventory mode.
InventoryModeReply(inventoryIDs, resolved, result, after) ==
    [state |-> after.state,
     result |-> [ok |-> TRUE, tool |-> "dcp_prune", mode |-> "inventory",
                 inventoryIDs |-> inventoryIDs,
                 unresolvedInventoryIDs |-> resolved.missingIDs,
                 prunedIDs |-> result.prunedIDs,
                 protectedIDs |-> result.protectedIDs,
                 missingIDs |-> result.missingIDs,
                 transformedView |-> after.summary]]

SweepMode(messages, state, config, result) ==
    SweepModeReply(result, summarizeView(messages, Pruned(state, result), config))

InventoryModePruned(messages, state, config, inventoryIDs, resolved, result) ==
    InventoryModeReply(inventoryIDs, resolved, result,
                       summarizeView(messages, Pruned(state, result), config))

\* Lines 39-47
InventoryMode(messages, state, config, inventoryIDs, reason, resolved) ==
    InventoryModePruned(messages, state, config, inventoryIDs, resolved,
                        pruneByIDs(messages, state.prunedByID, state.counters, config,
                                   resolved.resolvedMessageIDs, reason, Undefined))

\* Lines 23-26
ReasonOf(input) ==
    IF "reason" \in DOMAIN input /\ Len(input.reason) > 0
    THEN input.reason ELSE "manual"

\* Lines 22-57 of dcp_prune, on the state the opening inventory query leaves.
PruneMode(messages, state, config, input, inventoryIDs) ==
    IF Len(inventoryIDs) = 0
    THEN SweepMode(messages, state, config,
                   sweep(messages, state.prunedByID, state.counters, config, NoLimit))
    ELSE InventoryMode(messages, state, config, inventoryIDs, ReasonOf(input),
                       resolveInventoryMessageIDs(state.inventory, inventoryIDs))

\* extractMessages(runtime) is the message list of the runtime.
dcp_prune(messages, state, config, input) ==
    PruneMode(messages, WithInventory(messages, state, config), config, input,
              normalizeIDs(Property(input, "ids")))

\* The accumulator of the loop of dcp_distill: the state and the five lists.
DistillStart(state) ==
    [state |-> state, distillations |-> <<>>, prunedIDs |-> <<>>,
     protectedIDs |-> <<>>, missingIDs |-> <<>>, unresolvedInventoryIDs |-> <<>>]

\* Lines 85-97: the accumulator after createDistillation and pruneByIDs.
Distilled(acc, made, pruneResult) ==
    [acc EXCEPT
       !.state = [@ EXCEPT
                    !.distillations = made.distillations,
                    !.distillationBySourceID = made.distillationBySourceID,
                    !.prunedByID = pruneResult.prunedByID,
                    !.counters = pruneResult.counters],
       !.distillations = Append(@, made.record),
       !.prunedIDs = @ \o pruneResult.prunedIDs,
       !.protectedIDs = @ \o pruneResult.protectedIDs,
       !.missingIDs = @ \o pruneResult.missingIDs]

\* A pruning of the distilled message that does not pass the id of the
\* distillation on.
DistillMadeUnlinked(messages, config, messageID, acc, made) ==
    Distilled(acc, made,
              pruneByIDs(messages, acc.state.prunedByID, made.counters, config,
                         <<messageID>>, "distilled", Undefined))

\* Lines 87-94
DistillMade(messages, config, messageID, acc, made) ==
    Distilled(acc, made,
              pruneByIDs(messages, acc.state.prunedByID, made.counters, config,
                         <<messageID>>, "distilled", made.record.id))

\* Lines 78-84
DistillResolved(messages, config, target, acc, messageID) ==
    DistillMade(messages, config, messageID, acc,
                createDistillation(acc.state.distillations,
                                   acc.state.distillationBySourceID,
                                   acc.state.counters, <<messageID>>,
                                   target.distillation))

\* A resolution that skips a target whose id is unknown and reports nothing.
DistillTargetSilent(messages, config, target, acc, resolved) ==
    IF Len(resolved.missingIDs) > 0
    THEN acc
    ELSE DistillResolved(messages, config, target, acc, resolved.resolvedMessageIDs[1])

\* Lines 72-77
DistillTarget(messages, config, target, acc, resolved) ==
    IF Len(resolved.missingIDs) > 0
    THEN [acc EXCEPT !.unresolvedInventoryIDs = @ \o resolved.missingIDs]
    ELSE DistillResolved(messages, config, target, acc, resolved.resolvedMessageIDs[1])

\* A turn that numbers the inventory anew before it resolves its target.
distillOneRenumbered(messages, config, target, acc) ==
    DistillTarget(messages, config, target, acc,
                  resolveInventoryMessageIDs(
                      WithInventory(messages, acc.state, config).inventory,
                      <<target.id>>))

\* One turn of the loop of dcp_distill (lines 71-98).
distillOne(messages, config, target, acc) ==
    DistillTarget(messages, config, target, acc,
                  resolveInventoryMessageIDs(acc.state.inventory, <<target.id>>))

RECURSIVE distillLoop(_, _, _, _)
distillLoop(messages, config, targets, acc) ==
    IF targets = <<>> THEN acc
    ELSE distillLoop(messages, config, Tail(targets),
                     distillOne(messages, config, Head(targets), acc))

\* Lines 100-110: the reply of dcp_distill.
DistillReply(targets, done, after) ==
    [state |-> after.state,
     result |-> [ok |-> TRUE, tool |-> "dcp_distill",
                 distillations |-> done.distillations,
                 targetsApplied |-> Len(targets),
                 prunedIDs |-> done.prunedIDs,
                 protectedIDs |-> done.protectedIDs,
                 missingIDs |-> done.missingIDs,
                 unresolvedInventoryIDs |-> done.unresolvedInventoryIDs,
                 transformedView |-> after.summary]]

DistillDone(messages, config, targets, done) ==
    DistillReply(targets, done, summarizeView(messages, done.state, config))

DistillTargets(messages, state, config, targets) ==
    DistillDone(messages, config, targets,
                distillLoop(messages, config, targets, DistillStart(state)))

dcp_distill(messages, state, config, input) ==
    DistillTargets(messages, WithInventory(messages, state, config), config,
                   normalizeTargets(Property(input, "targets")))

(***************************************************************************)
(* lib/strategies/deduplication.ts: the tool tracker, nudges, instructions *)
(*                                                                         *)
(* A text (a content string, a part's text, an instruction) is a sequence  *)
(* of one-character strings, so that String.prototype.includes can be      *)
(* computed; an absent text is UndefinedPath. The content of a message is  *)
(* StringValue(text), ArrayValue(parts) or UndefinedValue. An id           *)
(* (tool_call_id, tool_use_id, call_id, a function name) is a string,      *)
(* Undefined when absent.                                                  *)
(***************************************************************************)
createToolTracker == [seenToolResultIds |-> {}, toolResultCount |-> 0]

\* A string id is truthy when it is present and not empty.
Truthy(id) == id # Undefined /\ id # ""

\* String.prototype.includes
Includes(text, search) ==
    \E i \in 1..(Len(text) - Len(search) + 1) :
       SubSeq(text, i, i + Len(search) - 1) = search

\* Every result counted, seen before or not.
SeeResultAgain(acc, id) ==
    [seen |-> acc.seen \cup {id}, newCount |-> acc.newCount + 1]

\* The accumulator of a count: the ids seen and the number of new ones.
SeeResult(acc, id) ==
    IF id \in acc.seen THEN acc
    ELSE [seen |-> acc.seen \cup {id}, newCount |-> acc.newCount + 1]

CountStart(tracker) == [seen |-> tracker.seenToolResultIds, newCount |-> 0]

\* tracker.toolResultCount += newCount; return newCount
Counted(tracker, acc) ==
    [tracker |-> [seenToolResultIds |-> acc.seen,
                  toolResultCount |-> tracker.toolResultCount + acc.newCount],
     newCount |-> acc.newCount]

\* Lines 41-50: the tool_result parts of a user message.
RECURSIVE countParts(_, _)
countParts(parts, acc) ==
    IF parts = <<>> THEN acc
    ELSE countParts(Tail(parts),
                    IF Head(parts).type = "tool_result" /\ Truthy(Head(parts).tool_use_id)
                    THEN SeeResult(acc, ToLowerCase(Head(parts).tool_use_id))
                    ELSE acc)

\* Lines 33-51: the loop of countToolResults.
RECURSIVE countMessages(_, _)
countMessages(messages, acc) ==
    IF messages = <<>> THEN acc
    ELSE countMessages(Tail(messages),
            IF Head(messages).role = "tool" /\ Truthy(Head(messages).tool_call_id)
            THEN SeeResult(acc, ToLowerCase(Head(messages).tool_call_id))
            ELSE IF Head(messages).role = "user" /\ Head(messages).content.t = "array"
            THEN countParts(Head(messages).content.v, acc)
            ELSE acc)

countToolResults(messages, tracker) ==
    Counted(tracker, countMessages(messages, CountStart(tracker)))

\* A nudge whenever a result is new.
NudgeDueNew(prevCount, counted, freq) == counted.newCount > 0

\* Lines 70-79 of injectNudge (and of its Gemini and Responses versions):
\* a nudge is due when results are new and the bucket advanced.
NudgeDue(prevCount, counted, freq) ==
    /\ counted.newCount > 0
    /\ (counted.tracker.toolResultCount \div freq) > (prevCount \div freq)

\* The nudge put in front of the messages.
appendNudgeFirst(messages, nudgeText) ==
    <<[role |-> "user", tool_call_id |-> Undefined,
       content |-> StringValue(nudgeText), synthetic |-> TRUE,
       ignored |-> FALSE, info |-> UndefinedObj]>> \o messages

appendNudge(messages, nudgeText) ==
    Append(messages, [role |-> "user", tool_call_id |-> Undefined,
                      content |-> StringValue(nudgeText), synthetic |-> TRUE,
                      ignored |-> FALSE, info |-> UndefinedObj])

\* What injectNudge leaves and returns, from the count it made.
NudgedChat(messages, prevCount, counted, nudgeText, freq) ==
    [data |-> IF NudgeDue(prevCount, counted, freq)
              THEN appendNudge(messages, nudgeText) ELSE messages,
     tracker |-> counted.tracker,
     newCount |-> counted.newCount,
     result |-> NudgeDue(prevCount, counted, freq)]

injectNudge(messages, tracker, nudgeText, freq) ==
    NudgedChat(messages, tracker.toolResultCount,
               countToolResults(messages, tracker), nudgeText, freq)

isIgnoredUserMessage(msg) ==
    IF msg.role # "user" THEN FALSE
    ELSE IF msg.ignored \/ (IsObject(msg.info) /\ msg.info.ignored) \/ msg.synthetic
    THEN TRUE
    ELSE /\ msg.content.t = "array"
         /\ Len(msg.content.v) > 0
         /\ \A i \in 1..Len(msg.content.v) : msg.content.v[i].ignored

\* The index of the last TRUE of the sequence, 0 when there is none (the
\* backward loops of lines 117, 204 and 276, over the target test of each
\* element).
LastIndex(isTarget) ==
    LET at == {i \in 1..Len(isTarget) : isTarget[i]}
    IN IF at = {} THEN 0 ELSE CHOOSE i \in at : \A k \in at : k <= i

\* The instruction put into the content without a look at what is there.
SynthIntoAgain(content, instruction, partType) ==
    IF content.t = "string"
    THEN [content |-> StringValue(content.s \o <<"\n", "\n">> \o instruction),
          result |-> TRUE]
    ELSE IF content.t = "array"
    THEN [content |-> ArrayValue(Append(content.v,
                         [type |-> partType, text |-> instruction,
                          tool_use_id |-> Undefined, ignored |-> FALSE])),
          result |-> TRUE]
    ELSE [content |-> content, result |-> TRUE]

\* Lines 120-137 and 279-296: the instruction put into the content of the
\* target; partType is "text" or "input_text".
SynthInto(content, instruction, partType) ==
    IF content.t = "string"
    THEN IF Includes(content.s, instruction)
         THEN [content |-> content, result |-> FALSE]
         ELSE [content |-> StringValue(content.s \o <<"\n", "\n">> \o instruction),
               result |-> TRUE]
    ELSE IF content.t = "array"
    THEN IF \E i \in 1..Len(content.v) :
               /\ content.v[i].type = partType
               /\ content.v[i].text # UndefinedPath
               /\ Includes(content.v[i].text, instruction)
         THEN [content |-> content, result |-> FALSE]
         ELSE [content |-> ArrayValue(Append(content.v,
                              [type |-> partType, text |-> instruction,
                               tool_use_id |-> Undefined, ignored |-> FALSE])),
               result |-> TRUE]
    ELSE [content |-> content, result |-> TRUE]

\* The array and the value a synth injection leaves, the target being at i.
SynthAt(data, i, instruction, partType) ==
    IF i = 0 THEN [data |-> data, result |-> FALSE]
    ELSE [data |-> [data EXCEPT ![i].content =
                       SynthInto(data[i].content, instruction, partType).content],
          result |-> SynthInto(data[i].content, instruction, partType).result]

injectSynth(messages, instruction) ==
    SynthAt(messages,
            LastIndex([i \in 1..Len(messages) |->
                          messages[i].role = "user" /\ ~isIgnoredUserMessage(messages[i])]),
            instruction, "text")

\* Google/Gemini format: a content is [role, parts], parts being
\* ArrayValue of [functionResponse, text] or UndefinedValue; a
\* functionResponse is UndefinedObj or [name |-> ...].
funcName(part) ==
    IF part.functionResponse.name # Undefined
          /\ ToLowerCase(part.functionResponse.name) # ""
    THEN ToLowerCase(part.functionResponse.name)
    ELSE "unknown"

\* Line 158: the pseudo id, whose ordinal is the size of the set of seen ids.
pseudoId(part, seen) ==
    "gemini:" \o funcName(part) \o ":" \o ToString(Cardinality(seen))

RECURSIVE countPartsGemini(_, _)
countPartsGemini(parts, acc) ==
    IF parts = <<>> THEN acc
    ELSE countPartsGemini(Tail(parts),
                          IF IsObject(Head(parts).functionResponse)
                          THEN SeeResult(acc, pseudoId(Head(parts), acc.seen))
                          ELSE acc)

RECURSIVE countContents(_, _)
countContents(contents, acc) ==
    IF contents = <<>> THEN acc
    ELSE countContents(Tail(contents),
                       IF Head(contents).parts.t # "array" THEN acc
                       ELSE countPartsGemini(Head(contents).parts.v, acc))

countToolResultsGemini(contents, tracker) ==
    Counted(tracker, countContents(contents, CountStart(tracker)))

appendNudgeGemini(contents, nudgeText) ==
    Append(contents, [role |-> "user",
                      parts |-> ArrayValue(<<[functionResponse |-> UndefinedObj,
                                              text |-> nudgeText]>>)])

NudgedGemini(contents, prevCount, counted, nudgeText, freq) ==
    [data |-> IF NudgeDue(prevCount, counted, freq)
              THEN appendNudgeGemini(contents, nudgeText) ELSE contents,
     tracker |-> counted.tracker,
     newCount |-> counted.newCount,
     result |-> NudgeDue(prevCount, counted, freq)]

injectNudgeGemini(contents, tracker, nudgeText, freq) ==
    NudgedGemini(contents, tracker.toolResultCount,
                 countToolResultsGemini(contents, tracker), nudgeText, freq)

\* Lines 208-215: a part's text counts when it is a non-empty string.
SynthIntoGemini(parts, instruction) ==
    IF \E i \in 1..Len(parts.v) :
          /\ parts.v[i].text # UndefinedPath
          /\ parts.v[i].text # <<>>
          /\ Includes(parts.v[i].text, instruction)
    THEN [parts |-> parts, result |-> FALSE]
    ELSE [parts |-> ArrayValue(Append(parts.v, [functionResponse |-> UndefinedObj,
                                                text |-> instruction])),
          result |-> TRUE]

SynthAtGemini(contents, i, instruction) ==
    IF i = 0 THEN [data |-> contents, result |-> FALSE]
    ELSE [data |-> [contents EXCEPT ![i].parts =
                       SynthIntoGemini(contents[i].parts, instruction).parts],
          result |-> SynthIntoGemini(contents[i].parts, instruction).result]

injectSynthGemini(contents, instruction) ==
    SynthAtGemini(contents,
                  LastIndex([i \in 1..Len(contents) |->
                                contents[i].role = "user" /\ contents[i].parts.t = "array"]),
                  instruction)

\* OpenAI Responses format: an item is [type, role, call_id, content].
RECURSIVE countItems(_, _)
countItems(input, acc) ==
    IF input = <<>> THEN acc
    ELSE countItems(Tail(input),
                    IF Head(input).type = "function_call_output" /\ Truthy(Head(input).call_id)
                    THEN SeeResult(acc, ToLowerCase(Head(input).call_id))
                    ELSE acc)

countToolResultsResponses(input, tracker) ==
    Counted(tracker, countItems(input, CountStart(tracker)))

appendNudgeResponses(input, nudgeText) ==
    Append(input, [type |-> "message", role |-> "user", call_id |-> Undefined,
                   content |-> StringValue(nudgeText), output |-> UndefinedPath,
                   name |-> Undefined])

NudgedResponses(input, prevCount, counted, nudgeText, freq) ==
    [data |-> IF NudgeDue(prevCount, counted, freq)
              THEN appendNudgeResponses(input, nudgeText) ELSE input,
     tracker |-> counted.tracker,
     newCount |-> counted.newCount,
     result |-> NudgeDue(prevCount, counted, freq)]

injectNudgeResponses(input, tracker, nudgeText, freq) ==
    NudgedResponses(input, tracker.toolResultCount,
                    countToolResultsResponses(input, tracker), nudgeText, freq)

injectSynthResponses(input, instruction) ==
    SynthAt(input,
            LastIndex([i \in 1..Len(input) |->
                          input[i].type = "message" /\ input[i].role = "user"]),
            instruction, "input_text")

(***************************************************************************)
(* lib/strategies/deduplication.ts: the match resolver                     *)
(*                                                                         *)
(* A session message is [info |-> [id |-> ...], parts |-> ...]; a part is  *)
(* [type, text, state, summary, result], an absent text being              *)
(* UndefinedPath and an absent state UndefinedObj. A tool state is         *)
(* [status, output, error, input] with a string input.                     *)
(***************************************************************************)
DEFAULT_FUZZY_CONFIG == [minScore |-> 95, minGap |-> 15]

\* typeof text === "string" ? " " + text : ""
Spaced(text) == IF text = UndefinedPath THEN <<>> ELSE <<" ">> \o text

\* Lines 340-356: what a tool part adds to the content.
ToolContent(toolState) ==
    IF ~IsObject(toolState) THEN <<>>
    ELSE (IF toolState.status = "completed" THEN Spaced(toolState.output)
          ELSE IF toolState.status = "error" THEN Spaced(toolState.error)
          ELSE <<>>)
         \o (IF toolState.input # UndefinedPath /\ toolState.input # <<>>
             THEN <<" ">> \o toolState.input ELSE <<>>)

\* Lines 331-373: what a part adds to the content.
PartContent(part) ==
    CASE part.type \in {"text", "reasoning"} -> Spaced(part.text)
      [] part.type = "tool" -> ToolContent(part.state)
      [] part.type = "compaction" -> Spaced(part.summary)
      [] part.type = "subtask" -> Spaced(part.summary) \o Spaced(part.result)
      [] OTHER -> <<>>

RECURSIVE ContentOfParts(_)
ContentOfParts(parts) ==
    IF parts = <<>> THEN <<>>
    ELSE PartContent(Head(parts)) \o ContentOfParts(Tail(parts))

extractMessageContent(msg) ==
    IF msg.parts.t = "array" THEN ContentOfParts(msg.parts.v) ELSE <<>>

Match(msgs, i, score, matchType) ==
    [messageId |-> msgs[i].info.id, messageIndex |-> i - 1,
     score |-> score, matchType |-> matchType]

\* The matches are kept as the set of their records; their order in the
\* array is the order of messageIndex.
findExactMatches(msgs, searchString) ==
    {Match(msgs, i, 100, "exact") :
       i \in {k \in 1..Len(msgs) :
                Includes(extractMessageContent(msgs[k]), searchString)}}

\* partial_ratio is the score the fuzzy library gives; scores[i] is its
\* value for message i.
findFuzzyMatches(msgs, scores, minScore) ==
    {Match(msgs, i, scores[i], "fuzzy") :
       i \in {k \in 1..Len(msgs) : scores[k] >= minScore}}

\* The first element after the stable sort by descending score.
BestOf(matches) ==
    CHOOSE m \in matches :
       \A o \in matches :
          \/ m.score > o.score
          \/ m.score = o.score /\ m.messageIndex <= o.messageIndex

Found(match) ==
    [ok |-> TRUE, messageId |-> match.messageId, messageIndex |-> match.messageIndex]

Thrown(error) == [ok |-> FALSE, error |-> error]

\* Every message searched from the start, the last one too.
allMessages(msgs) == msgs

\* Line 431
searchableMessages(msgs) ==
    IF Len(msgs) > 1 THEN SubSeq(msgs, 1, Len(msgs) - 1) ELSE msgs

\* The last message never looked at.
LastResortNever(msgs, searchString) == Thrown("not found")

\* Lines 447-466: no exact and no fuzzy match among the searchable messages.
LastResort(msgs, searchString) ==
    IF /\ Len(msgs) > 0
       /\ Includes(extractMessageContent(msgs[Len(msgs)]), searchString)
    THEN Found(Match(msgs, Len(msgs), 100, "exact"))
    ELSE Thrown("not found")

\* The best fuzzy match, whatever the others score.
FuzzyChoiceBest(fuzzyMatches, fuzzyConfig) == Found(BestOf(fuzzyMatches))

\* Lines 468-493: the best fuzzy match, if it stands out.
FuzzyChoice(fuzzyMatches, fuzzyConfig) ==
    IF /\ Cardinality(fuzzyMatches) > 1
       /\ BestOf(fuzzyMatches).score
             - BestOf(fuzzyMatches \ {BestOf(fuzzyMatches)}).score < fuzzyConfig.minGap
    THEN Thrown("multiple matches")
    ELSE Found(BestOf(fuzzyMatches))

\* Lines 445-493: no exact match among the searchable messages.
FuzzyOrLast(msgs, searchString, fuzzyMatches, fuzzyConfig) ==
    IF fuzzyMatches = {} THEN LastResort(msgs, searchString)
    ELSE FuzzyChoice(fuzzyMatches, fuzzyConfig)

\* Lines 433-445, from the exact matches on.
Resolve(msgs, searchString, scores, fuzzyConfig, exactMatches) ==
    IF Cardinality(exactMatches) = 1
    THEN Found(CHOOSE m \in exactMatches : TRUE)
    ELSE IF Cardinality(exactMatches) > 1 THEN Thrown("multiple matches")
    ELSE FuzzyOrLast(msgs, searchString,
                     findFuzzyMatches(searchableMessages(msgs), scores,
                                      fuzzyConfig.minScore),
                     fuzzyConfig)

findStringInMessages(msgs, searchString, scores, fuzzyConfig) ==
    Resolve(msgs, searchString, scores, fuzzyConfig,
            findExactMatches(searchableMessages(msgs), searchString))

(***************************************************************************)
(* The session state (createSessionState, resetSessionState,               *)
(* ensureSessionInitialized) and the Responses format descriptor           *)
(*                                                                         *)
(* A SessionState is [sessionId, prune, stats, toolParameters]; the        *)
(* sessionId null is NullID and toolParameters is a function from          *)
(* lower-cased tool ids to entries.                                        *)
(***************************************************************************)
NullID == "<null>"
NullState == [null |-> TRUE]

createSessionState ==
    [sessionId |-> NullID,
     prune |-> [toolIds |-> <<>>],
     stats |-> [pruneTokenCounter |-> 0, totalPruneTokens |-> 0],
     toolParameters |-> EmptyMap]

\* The previous session's data kept.
resetSessionStateKept(s) == [s EXCEPT !.sessionId = NullID]

resetSessionState(s) ==
    [s EXCEPT !.sessionId = NullID,
              !.prune = [toolIds |-> <<>>],
              !.stats = [pruneTokenCounter |-> 0, totalPruneTokens |-> 0],
              !.toolParameters = EmptyMap]

\* value || fallback, for a field of the persisted state that may be absent
OrElse(record, key, fallback) ==
    IF IsObject(record) /\ key \in DOMAIN record THEN record[key] ELSE fallback

\* Lines 51-57: the state filled from what loadSessionState returned.
Populated(s, persisted) ==
    [s EXCEPT !.prune = [toolIds |-> OrElse(persisted.prune, "toolIds", <<>>)],
              !.stats = [pruneTokenCounter |->
                            OrElse(persisted.stats, "pruneTokenCounter", 0),
                         totalPruneTokens |->
                            OrElse(persisted.stats, "totalPruneTokens", 0)]]

\* Lines 40-57: the session changes; persisted is what loadSessionState
\* returns for sessionId, NullState for null.
Reinitialized(s, sessionId, persisted) ==
    IF persisted = NullState THEN [s EXCEPT !.sessionId = sessionId]
    ELSE Populated([s EXCEPT !.sessionId = sessionId], persisted)

\* The state ensureSessionInitialized leaves and whether it has called
\* loadSessionState.
ensureSessionInitialized(s, sessionId, persisted) ==
    IF s.sessionId = sessionId THEN [state |-> s, loaded |-> FALSE]
    ELSE [state |-> Reinitialized(resetSessionState(s), sessionId, persisted),
          loaded |-> TRUE]

\* Lines 36-45: ensureSessionInitialized up to its await.  It returns at
\* once for the session the state names; otherwise it resets the state,
\* names the session and waits for loadSessionState.
ensureBeforeLoad(s, sessionId) ==
    IF s.sessionId = sessionId THEN [state |-> s, waits |-> FALSE]
    ELSE [state |-> [resetSessionState(s) EXCEPT !.sessionId = sessionId],
          waits |-> TRUE]

\* Lines 46-57: ensureSessionInitialized after its await, on the state as it
\* is when loadSessionState has returned persisted.
ensureAfterLoad(s, persisted) ==
    IF persisted = NullState THEN s ELSE Populated(s, persisted)

PRUNED_CONTENT_MESSAGE ==
    <<"[Output removed to save context - information superseded or no longer needed]">>

\* openaiResponsesFormat.extractToolOutputs
ToolOutputOf(item, toolParameters) ==
    [id |-> ToLowerCase(item.call_id),
     toolName |-> IF ToLowerCase(item.call_id) \in DOMAIN toolParameters
                  THEN toolParameters[ToLowerCase(item.call_id)].tool
                  ELSE item.name]

RECURSIVE extractToolOutputs(_, _)
extractToolOutputs(data, toolParameters) ==
    IF data = <<>> THEN <<>>
    ELSE (IF Head(data).type = "function_call_output" /\ Truthy(Head(data).call_id)
          THEN <<ToolOutputOf(Head(data), toolParameters)>> ELSE <<>>)
         \o extractToolOutputs(Tail(data), toolParameters)

\* Only the first item with the id replaced.
ReplacesFirst(data, i, toolId) ==
    /\ data[i].type = "function_call_output"
    /\ data[i].call_id # Undefined
    /\ ToLowerCase(data[i].call_id) = ToLowerCase(toolId)
    /\ \A k \in 1..(i - 1) :
          ~(/\ data[k].type = "function_call_output"
            /\ data[k].call_id # Undefined
            /\ ToLowerCase(data[k].call_id) = ToLowerCase(toolId))

\* Line 67: the test of replaceToolOutput on item i.
Replaces(data, i, toolId) ==
    /\ data[i].type = "function_call_output"
    /\ data[i].call_id # Undefined
    /\ ToLowerCase(data[i].call_id) = ToLowerCase(toolId)

\* openaiResponsesFormat.replaceToolOutput: the array it leaves and the
\* value it returns.
replaceToolOutput(data, toolId, prunedMessage) ==
    [data |-> [i \in 1..Len(data) |->
                  IF Replaces(data, i, toolId)
                  THEN [data[i] EXCEPT !.output = prunedMessage] ELSE data[i]],
     result |-> \E i \in 1..Len(data) : Replaces(data, i, toolId)]

hasToolOutputs(data) ==
    \E i \in 1..Len(data) : data[i].type = "function_call_output"

\* replaceToolOutput for each extracted output, in order.
RECURSIVE ReplaceEach(_, _, _)
ReplaceEach(data, outputs, prunedMessage) ==
    IF outputs = <<>> THEN data
    ELSE ReplaceEach(replaceToolOutput(data, Head(outputs).id, prunedMessage).data,
                     Tail(outputs), prunedMessage)

(***************************************************************************)
(* Host transport (getAllPrunedIds, fetchSessionMessages)                  *)
(*                                                                         *)
(* A call of the host client ends in one of three ways: it returns         *)
(* [data |-> ...], it returns a response without data, or it throws.       *)
(***************************************************************************)
Throws == [throws |-> TRUE]
NoData == [error |-> TRUE]

\* Lines 138-144: the pruned ids of the sessions without a parent.
PrunedIdsOf(sessions, prunedIds) ==
    UNION {IF sessions[i].id \in DOMAIN prunedIds
           THEN Range(prunedIds[sessions[i].id]) ELSE {} :
           i \in {k \in 1..Len(sessions) : sessions[k].parentID = Undefined}}

\* getAllPrunedIds; listed is the outcome of client.session.list().
getAllPrunedIds(listed, prunedIds) ==
    IF listed = Throws THEN [thrown |-> TRUE]
    ELSE [thrown |-> FALSE, allSessions |-> listed,
          allPrunedIds |-> IF "data" \in DOMAIN listed
                           THEN PrunedIdsOf(listed.data, prunedIds) ELSE {}]

\* fetchSessionMessages; response is the outcome of
\* client.session.messages(), a response object or (ArrayValue) an array.
fetchSessionMessages(response) ==
    IF response = Throws THEN [thrown |-> FALSE, value |-> UndefinedValue]
    ELSE [thrown |-> FALSE,
          value |-> IF "data" \in DOMAIN response /\ response.data.t = "array"
                    THEN response.data
                    ELSE IF "t" \in DOMAIN response /\ response.t = "array"
                    THEN response ELSE UndefinedValue]

(***************************************************************************)
(* commands.js: the /dcp command                                           *)
(*                                                                         *)
(* The raw input is a value tagged with its JavaScript type: a string is   *)
(* [t |-> "string", chars |-> its characters in order].  The runtime is    *)
(* an object with a messages property, or undefined.                       *)
(***************************************************************************)
CharsValue(chars) == [t |-> "string", chars |-> chars]
RuntimeValue(messagesValue) == [t |-> "object", messages |-> messagesValue]

\* The characters \s matches, of those a command line holds.
IsSpace(c) == c \in {" ", "\t", "\n"}

RECURSIVE trimStart(_)
trimStart(chars) ==
    IF chars # <<>> /\ IsSpace(Head(chars)) THEN trimStart(Tail(chars)) ELSE chars

RECURSIVE trimEnd(_)
trimEnd(chars) ==
    IF chars # <<>> /\ IsSpace(chars[Len(chars)])
    THEN trimEnd(SubSeq(chars, 1, Len(chars) - 1))
    ELSE chars

\* String.prototype.trim
trim(chars) == trimEnd(trimStart(chars))

UpperCaseLetters ==
    <<"A", "B", "C", "D", "E", "F", "G", "H", "I", "J", "K", "L", "M",
      "N", "O", "P", "Q", "R", "S", "T", "U", "V", "W", "X", "Y", "Z">>

LowerCaseLetters ==
    <<"a", "b", "c", "d", "e", "f", "g", "h", "i", "j", "k", "l", "m",
      "n", "o", "p", "q", "r", "s", "t", "u", "v", "w", "x", "y", "z">>

\* String.prototype.toLowerCase, character by character
toLowerCaseChars(chars) ==
    [i \in 1..Len(chars) |->
        IF \E k \in 1..Len(UpperCaseLetters) : UpperCaseLetters[k] = chars[i]
        THEN LowerCaseLetters[CHOOSE k \in 1..Len(UpperCaseLetters) :
                                 UpperCaseLetters[k] = chars[i]]
        ELSE chars[i]]

\* Line 12: text.replace(/^\/dcp\s*/i, "")
StripCommand(chars) ==
    IF Len(chars) >= 4
       /\ toLowerCaseChars(SubSeq(chars, 1, 4)) = <<"/", "d", "c", "p">>
    THEN trimStart(SubSeq(chars, 5, Len(chars)))
    ELSE chars

\* The length of the word a line that starts with no space starts with.
WordLen(chars) ==
    IF \E i \in 1..Len(chars) : IsSpace(chars[i])
    THEN (CHOOSE i \in 1..Len(chars) :
             IsSpace(chars[i]) /\ \A k \in 1..(i - 1) : ~IsSpace(chars[k])) - 1
    ELSE Len(chars)

\* Lines 14-15: split(/\s+/).filter(Boolean)
RECURSIVE SplitWords(_)
SplitWords(chars) ==
    IF chars = <<>> THEN <<>>
    ELSE IF IsSpace(Head(chars)) THEN SplitWords(Tail(chars))
    ELSE <<SubSeq(chars, 1, WordLen(chars))>>
         \o SplitWords(SubSeq(chars, WordLen(chars) + 1, Len(chars)))

\* Lines 10-15: the arguments of the command.
CommandArgs(rawInput) ==
    SplitWords(trim(StripCommand(IF rawInput.t = "string"
                                 THEN trim(rawInput.chars) ELSE <<>>)))

\* Line 16: (args[0] || "").toLowerCase()
Subcommand(args) ==
    IF args = <<>> THEN <<>> ELSE toLowerCaseChars(args[1])

DecimalDigits == <<"0", "1", "2", "3", "4", "5", "6", "7", "8", "9">>

IsDigit(c) == \E k \in 1..Len(DecimalDigits) : DecimalDigits[k] = c

DigitValue(c) == (CHOOSE k \in 1..Len(DecimalDigits) : DecimalDigits[k] = c) - 1

\* The number of digits a word starts with.
DigitsLen(chars) ==
    IF \E i \in 1..Len(chars) : ~IsDigit(chars[i])
    THEN (CHOOSE i \in 1..Len(chars) :
             ~IsDigit(chars[i]) /\ \A k \in 1..(i - 1) : IsDigit(chars[k])) - 1
    ELSE Len(chars)

RECURSIVE DecimalValue(_)
DecimalValue(digits) ==
    IF digits = <<>> THEN 0
    ELSE DecimalValue(SubSeq(digits, 1, Len(digits) - 1)) * 10
         + DigitValue(digits[Len(digits)])

NaN == [nan |-> TRUE]
Finite(n) == [nan |-> FALSE, n |-> n]

\* The digits after the sign, when parseInt has taken the sign.
ParseDigits(sign, chars) ==
    IF DigitsLen(chars) = 0 THEN NaN
    ELSE Finite(sign * DecimalValue(SubSeq(chars, 1, DigitsLen(chars))))

\* Number.parseInt(word, 10): an optional sign and the digits that follow
\* it; NaN when no digit follows.
parseInt(chars) ==
    IF trimStart(chars) = <<>> THEN NaN
    ELSE IF Head(trimStart(chars)) = "-" THEN ParseDigits(-1, Tail(trimStart(chars)))
    ELSE IF Head(trimStart(chars)) = "+" THEN ParseDigits(1, Tail(trimStart(chars)))
    ELSE ParseDigits(1, trimStart(chars))

\* Line 37: the limit handed to sweep, undefined unless a positive number.
CommandLimit(maybeLimit) ==
    IF ~maybeLimit.nan /\ maybeLimit.n > 0 THEN NumberLimit(maybeLimit.n) ELSE NoLimit

\* Lines 52-57
extractMessages(runtime) ==
    IF runtime.t = "object" /\ runtime.messages.t = "array"
    THEN runtime.messages.v
    ELSE <<>>

\* Lines 92-103, for the contents a message of the model has: a string or
\* nothing.
RECURSIVE totalChars(_)
totalChars(msgs) ==
    IF msgs = <<>> THEN 0
    ELSE (IF Head(msgs).content = Undefined THEN 0 ELSE Len(Head(msgs).content))
         + totalChars(Tail(msgs))

RECURSIVE SumOf(_, _)
SumOf(entries, field) ==
    IF entries = <<>> THEN 0 ELSE Head(entries)[field] + SumOf(Tail(entries), field)

\* Lines 73-78: the line of an entry of the inventory.
EntryLine(entry) ==
    "#" \o entry.id \o " "
    \o (IF entry.toolName # "" THEN entry.toolName
        ELSE IF entry.role # "" THEN entry.role ELSE "unknown")
    \o " chars=" \o ToString(entry.chars)
    \o " estTokens=" \o ToString(entry.estimatedTokens)

\* Lines 62-80 of formatContext: the text, from the view and the inventory.
ContextLines(msgs, view, entries) ==
    Join(<<"context rawMessages=" \o ToString(Len(msgs))
           \o " viewMessages=" \o ToString(Len(view))
           \o " rawChars=" \o ToString(totalChars(msgs))
           \o " viewChars=" \o ToString(totalChars(view))
           \o " savedChars=" \o ToString(totalChars(msgs) - totalChars(view)),
           "prunable count=" \o ToString(Len(entries))
           \o " chars=" \o ToString(SumOf(entries, "chars"))
           \o " estTokens=" \o ToString(SumOf(entries, "estimatedTokens"))>>
         \o [i \in 1..Len(entries) |-> EntryLine(entries[i])],
         "\n")

\* What a command leaves and returns: its reply, the state, and the result
\* of the sweep it ran, when it ran one.
NoSweep == [swept |-> FALSE]

CommandResult(reply, st, sweepResult) ==
    [reply |-> reply, state |-> st, sweep |-> sweepResult]

\* Lines 59-81: formatContext builds the view, then queries the inventory.
formatContext(msgs, st, cfg, transformed, inventory) ==
    CommandResult(ContextLines(msgs, transformed.view, inventory.entries),
                  [st EXCEPT !.idMap = transformed.idMap,
                             !.inventory = inventory.inventory],
                  NoSweep)

\* Lines 83-90
formatStats(st) ==
    Join(<<"stats prunedMessages=" \o ToString(st.counters.prunedMessages),
           "prunedChars=" \o ToString(st.counters.prunedChars),
           "distillations=" \o ToString(st.counters.distillations),
           "sweeps=" \o ToString(st.counters.sweeps)>>, " ")

\* Lines 39-44: the reply of the sweep subcommand.
SweepLine(result) ==
    Join(<<"sweep pruned=" \o ToString(Len(result.prunedIDs)),
           "protected=" \o ToString(Len(result.protectedIDs)),
           "candidates=" \o ToString(result.candidateCount),
           IF result.usedLimit # NullLimit
           THEN "limit=" \o ToString(result.usedLimit.n) ELSE "limit=all">>, " ")

\* Lines 35-45: the sweep subcommand, from the result of sweep.
SweepCommand(st, limit, result) ==
    CommandResult(SweepLine(result),
                  [st EXCEPT !.prunedByID = result.prunedByID,
                             !.counters = result.counters],
                  [swept |-> TRUE, limit |-> limit, result |-> result])

\* Commands that run whatever the configuration says.
CommandsEnabledAlways(cfg) == TRUE

\* Line 19: the test of ctx.config.commands.enabled
CommandsEnabled(cfg) == cfg.commands.enabled

\* Lines 19-47: the branches of the handler.
RunCommand(subcommand, args, msgs, st, cfg) ==
    IF ~CommandsEnabled(cfg)
    THEN CommandResult("dcp commands are disabled by config", st, NoSweep)
    ELSE IF subcommand = <<>>
    THEN CommandResult("usage: /dcp context | /dcp stats | /dcp sweep [n]", st, NoSweep)
    ELSE IF subcommand = <<"c", "o", "n", "t", "e", "x", "t">>
    THEN formatContext(msgs, st, cfg,
                       createTransformedView(msgs, st.prunedByID, st.idMap),
                       getPrunableInventory(msgs, st.prunedByID, st.inventory, cfg))
    ELSE IF subcommand = <<"s", "t", "a", "t", "s">>
    THEN CommandResult(formatStats(st), st, NoSweep)
    ELSE IF subcommand = <<"s", "w", "e", "e", "p">>
    THEN SweepCommand(st,
                      CommandLimit(parseInt(IF Len(args) >= 2 THEN args[2] ELSE <<>>)),
                      sweep(msgs, st.prunedByID, st.counters, cfg,
                            CommandLimit(parseInt(IF Len(args) >= 2
                                                  THEN args[2] ELSE <<>>))))
    ELSE CommandResult("unknown /dcp subcommand; expected context, stats, or sweep [n]",
                       st, NoSweep)

\* Lines 9-48
dcpCommand(rawInput, runtime, st, cfg) ==
    RunCommand(Subcommand(CommandArgs(rawInput)), CommandArgs(rawInput),
               extractMessages(runtime), st, cfg)

(***************************************************************************)
(* index.js: registration with the host                                    *)
(*                                                                         *)
(* A registration method of the host is [t |-> "function", accepts |-> the *)
(* calls it returns from]; it throws on every other call.  A call is the   *)
(* shape of its arguments: one object with a name, or a name and a         *)
(* payload, and the keys of the object or payload.                         *)
(***************************************************************************)
FunctionValue(accepts) == [t |-> "function", accepts |-> accepts]

ObjectCall(name, keys) == [shape |-> "object", name |-> name, keys |-> keys]
NamedCall(name, keys) == [shape |-> "named", name |-> name, keys |-> keys]

\* One try block: the call and whether registerFn returned or threw; what
\* it throws is caught in every block.
Attempt(surface, call, registerFn) ==
    [surface |-> surface, call |-> call,
     outcome |-> IF call \in registerFn.accepts THEN "returned" ELSE "threw",
     caught |-> TRUE]

\* Try blocks that do not return after a call that returned.
RECURSIVE TryEachAll(_, _, _)
TryEachAll(surface, calls, registerFn) ==
    IF calls = <<>> THEN <<>>
    ELSE <<Attempt(surface, Head(calls), registerFn)>>
         \o TryEachAll(surface, Tail(calls), registerFn)

\* The try blocks of a registration in turn: the function returns after the
\* first call that returned, and goes on after a call that threw.
RECURSIVE TryEach(_, _, _)
TryEach(surface, calls, registerFn) ==
    IF calls = <<>> THEN <<>>
    ELSE IF Head(calls) \in registerFn.accepts
    THEN <<Attempt(surface, Head(calls), registerFn)>>
    ELSE <<Attempt(surface, Head(calls), registerFn)>>
         \o TryEach(surface, Tail(calls), registerFn)

\* Lines 154-196: the calls registerToolWithHost makes, in its order.
ToolCalls(name) ==
    <<ObjectCall(name, {"name", "description", "parameters", "inputSchema",
                        "handler", "execute"}),
      NamedCall(name, {"description", "parameters", "inputSchema",
                       "handler", "execute"}),
      ObjectCall(name, {"name", "description", "parameters", "handler"})>>

registerToolWithHost(registerFn, name) ==
    TryEach("tool", ToolCalls(name), registerFn)

\* Lines 203-258: the calls registerCommandWithHost makes, in its order.
CommandCalls(name) ==
    <<ObjectCall(name, {"name", "description", "parameters", "argsSchema",
                        "handler", "execute"}),
      NamedCall(name, {"description", "parameters", "argsSchema",
                       "handler", "execute"}),
      NamedCall("/" \o name, {"description", "parameters", "argsSchema",
                              "handler", "execute"}),
      ObjectCall("/" \o name, {"name", "description", "parameters", "argsSchema",
                               "handler", "execute"})>>

registerCommandWithHost(registerFn, name) ==
    TryEach("command", CommandCalls(name), registerFn)

\* Lines 138-146: an object under config, else an object under
\* pluginConfig, else {}.
readHostConfig(hostObject) ==
    IF Property(hostObject, "config") # UndefinedValue THEN hostObject.config
    ELSE IF Property(hostObject, "pluginConfig") # UndefinedValue
    THEN hostObject.pluginConfig
    ELSE EmptyMap

\* Lines 65-90: what register reads of the extension.
createOpenClawDcpExtension(rawConfig) ==
    [id |-> "openclaw-dcp-extension", enabled |-> normalizeConfig(rawConfig).enabled]

\* Lines 101-123 of register: the registrations of an enabled extension.
Registrations(hostObject) ==
    (IF Property(hostObject, "registerTool").t = "function"
     THEN registerToolWithHost(hostObject.registerTool, "dcp_prune")
          \o registerToolWithHost(hostObject.registerTool, "dcp_distill")
     ELSE <<>>)
    \o (IF Property(hostObject, "registerCommand").t = "function"
        THEN registerCommandWithHost(hostObject.registerCommand, "dcp")
        ELSE <<>>)

\* The outcome of register for the calls it made: the extension it
\* returns, and whether something thrown left a try block.
Registered(extension, attempts) ==
    [extension |-> extension, attempts |-> attempts,
     thrown |-> \E i \in 1..Len(attempts) :
                   attempts[i].outcome = "threw" /\ ~attempts[i].caught]

\* Lines 93-126
register(api) ==
    LET hostObject == IF api.t = "object" THEN api ELSE [t |-> "object"]
        extension == createOpenClawDcpExtension(readHostConfig(hostObject))
    IN IF ~extension.enabled THEN Registered(extension, <<>>)
       ELSE Registered(extension, Registrations(hostObject))

(***************************************************************************)
(* The state machine                                                       *)
(*                                                                         *)
(*   messages  the message list of the host runtime (runtime.messages)     *)
(*   issued    the number of message ids the host has handed out           *)
(*   config    ctx.config, normalised when the extension is created        *)
(*   state     ctx.state, the DcpState of state.js                         *)
(*   queried   the (messageID, chars) pairs of the prunable messages at    *)
(*             the latest inventory query                                  *)
(*   last      the call in progress: its name, its arguments, the parts    *)
(*             of the state before it that it may write, and what it       *)
(*             returns; Idle once the caller has taken the result          *)
(*   tracker   the ToolTracker of the session (createToolTracker)          *)
(*   body      the request in flight: its format and its data array        *)
(*             (body.messages, body.contents or body.input)                *)
(*   session   the SessionState of the plugin (createSessionState)         *)
(*   host      what the host holds of the plugin once it has loaded it:    *)
(*             the api it handed to register, the registration calls made  *)
(*             and those it returned from                                  *)
(*   loads     the persisted snapshots by session id, the calls of        *)
(*             ensureSessionInitialized that wait for loadSessionState,    *)
(*             and the call that resolved last                             *)
(*                                                                         *)
(* Calls do not overlap: a call starts when no other is in progress.       *)
(* SweepAgain is a sweep that starts right after a sweep, before that      *)
(* one's result is forgotten, so that the two results can be compared.     *)
(***************************************************************************)
VARIABLES messages, issued, config, state, queried, last, tracker, body,
          session, host, loads

vars == <<messages, issued, config, state, queried, last, tracker, body, session,
          host, loads>>

MaxLimit == 2     \* the largest limit handed to sweep

Idle == [op |-> "idle"]

\* The parts of the state a pruning call may write.
Writable(s) ==
    [prunedByID |-> s.prunedByID, counters |-> s.counters,
     distillations |-> s.distillations,
     distillationBySourceID |-> s.distillationBySourceID]

\* The (messageID, chars) pairs of the currently prunable messages.
PrunablePairs(msgs, prunedByID, cfg) ==
    LET entries == PrunableEntries(msgs, prunedByID, normalizeConfig(cfg))
    IN [i \in 1..Len(entries) |-> <<entries[i].messageID, entries[i].chars>>]

\* The host before it has loaded the plugin.
NotLoaded ==
    [loaded |-> FALSE, api |-> UndefinedValue, attempts |-> <<>>,
     registry |-> <<>>, thrown |-> FALSE, enabled |-> FALSE]

\* The sessions of the host.
SessionIDs == {"s1", "s2"}

\* No call of ensureSessionInitialized has resolved since the last pause.
NoCall == [call |-> 0]

\* Nothing is persisted and no call waits.
NoLoads ==
    [storage |-> [sessionId \in SessionIDs |-> NullState],
     waiting |-> <<>>, started |-> 0, resolved |-> NoCall]

Init ==
    /\ messages = <<>>
    /\ issued = 0
    /\ config \in {normalizeConfig(raw) : raw \in RawConfigs}
    /\ state = createState
    /\ queried = <<>>
    /\ last = Idle
    /\ tracker = createToolTracker
    /\ body = [format |-> "none", data |-> <<>>]
    /\ session = createSessionState
    /\ host = NotLoaded
    /\ loads = NoLoads

\* The caller has taken the result of the last call.
Return ==
    /\ last # Idle
    /\ last' = Idle
    /\ UNCHANGED <<messages, issued, config, state, queried, tracker, body, session, host, loads>>

\* The host runtime appends a message under a fresh id.
HostAppend(kind, bound) ==
    /\ last = Idle
    /\ issued < bound
    /\ messages' = Append(messages, NewMessage(issued + 1, kind))
    /\ issued' = issued + 1
    /\ UNCHANGED <<config, state, queried, last, tracker, body, session, host, loads>>

\* The host runtime compacts its history: the oldest message leaves the list.
HostDrop ==
    /\ last = Idle
    /\ messages # <<>>
    /\ messages' = Tail(messages)
    /\ UNCHANGED <<issued, config, state, queried, last, tracker, body, session, host, loads>>

PruneByIDs(messageIDs, reason, distillationID) ==
    LET result == pruneByIDs(messages, state.prunedByID, state.counters, config,
                             messageIDs, reason, distillationID)
    IN /\ last = Idle
       /\ state' = [state EXCEPT !.prunedByID = result.prunedByID,
                                 !.counters = result.counters]
       /\ last' = [op |-> "pruneByIDs", pre |-> Writable(state),
                   messageIDs |-> messageIDs,
                   prunedIDs |-> result.prunedIDs,
                   protectedIDs |-> result.protectedIDs,
                   missingIDs |-> result.missingIDs]
       /\ UNCHANGED <<messages, issued, config, queried, tracker, body, session, host, loads>>

\* The record of a sweep: before says what the sweep that returned
\* immediately before it was given and returned, when there is one.
SweepCall(limit, before, result) ==
    /\ state' = [state EXCEPT !.prunedByID = result.prunedByID,
                              !.counters = result.counters]
    /\ last' = [op |-> "sweep", pre |-> Writable(state), limit |-> limit,
                before |-> before,
                candidates |-> result.candidates,
                prunedIDs |-> result.prunedIDs,
                protectedIDs |-> result.protectedIDs,
                missingIDs |-> result.missingIDs,
                candidateCount |-> result.candidateCount,
                usedLimit |-> result.usedLimit]
    /\ UNCHANGED <<messages, issued, config, queried, tracker, body, session, host, loads>>

Sweep(limit) ==
    /\ last = Idle
    /\ SweepCall(limit, [sweep |-> FALSE],
                 sweep(messages, state.prunedByID, state.counters, config, limit))

\* A second sweep on the same message list, right after a first.
SweepAgain(limit) ==
    /\ last.op = "sweep"
    /\ ~last.before.sweep
    /\ SweepCall(limit,
                 [sweep |-> TRUE, limit |-> last.limit,
                  candidates |-> last.candidates, prunedIDs |-> last.prunedIDs],
                 sweep(messages, state.prunedByID, state.counters, config, limit))

CollectSweepCandidates ==
    /\ last = Idle
    /\ last' = [op |-> "collectSweepCandidates", pre |-> Writable(state),
                candidates |-> collectSweepCandidates(messages, state.prunedByID, config)]
    /\ UNCHANGED <<messages, issued, config, state, queried, tracker, body, session, host, loads>>

GetPrunableInventory ==
    LET got == getPrunableInventory(messages, state.prunedByID, state.inventory, config)
    IN /\ last = Idle
       /\ state' = [state EXCEPT !.inventory = got.inventory]
       /\ queried' = PrunablePairs(messages, state.prunedByID, config)
       /\ last' = [op |-> "getPrunableInventory", pre |-> Writable(state),
                   inventory |-> state.inventory, queried |-> queried,
                   entries |-> got.entries, rebuilt |-> got.rebuilt]
       /\ UNCHANGED <<messages, issued, config, tracker, body, session, host, loads>>

CreateTransformedView ==
    LET got == createTransformedView(messages, state.prunedByID, state.idMap)
    IN /\ last = Idle
       /\ state' = [state EXCEPT !.idMap = got.idMap]
       /\ last' = [op |-> "createTransformedView", pre |-> Writable(state),
                   messages |-> messages, inventory |-> state.inventory,
                   view |-> got.view]
       /\ UNCHANGED <<messages, issued, config, queried, tracker, body, session, host, loads>>

\* The arguments a caller hands to dcp_prune.
PruneInputs ==
    {EmptyMap, [ids |-> StringValue("1")],
     [ids |-> ArrayValue(<<"1">>), reason |-> "noise"],
     [ids |-> ArrayValue(<<"2">>), reason |-> ""]}
    \cup {[ids |-> ArrayValue(ids)] :
            ids \in {<<>>, <<"">>, <<"3">>, <<"9", "1">>, <<"1", "2">>,
                     <<"2", "1">>, <<"1", "1">>}}

DcpPrune(input) ==
    LET got == dcp_prune(messages, state, config, input)
    IN /\ last = Idle
       /\ state' = got.state
       /\ queried' = PrunablePairs(messages, got.state.prunedByID, config)
       /\ last' = [op |-> "dcp_prune", pre |-> Writable(state), input |-> input,
                   result |-> got.result,
                   prunedIDs |-> got.result.prunedIDs,
                   protectedIDs |-> got.result.protectedIDs,
                   missingIDs |-> got.result.missingIDs]
       /\ UNCHANGED <<messages, issued, config, tracker, body, session, host, loads>>

\* The arguments a caller hands to dcp_distill.
DistillInputs ==
    {EmptyMap}
    \cup {[targets |-> ArrayValue(t)] :
            t \in {<<>>,
                   <<[id |-> "1", distillation |-> " s1 "]>>,
                   <<[id |-> "2"]>>,
                   <<[id |-> "1", distillation |-> "  "], [id |-> "1", distillation |-> " s1 "]>>,
                   <<[id |-> "9", distillation |-> " s1 "], [id |-> "1"]>>,
                   <<[id |-> "1"], [id |-> "2"]>>,
                   <<[id |-> "2", distillation |-> " s1 "], [id |-> "1"]>>,
                   <<[distillation |-> " s1 "], [id |-> "3"]>>}}

DcpDistill(input) ==
    LET got == dcp_distill(messages, state, config, input)
    IN /\ last = Idle
       /\ state' = got.state
       /\ queried' = PrunablePairs(messages, got.state.prunedByID, config)
       /\ last' = [op |-> "dcp_distill", pre |-> Writable(state), input |-> input,
                   result |-> got.result,
                   prunedIDs |-> got.result.prunedIDs,
                   protectedIDs |-> got.result.protectedIDs,
                   missingIDs |-> got.result.missingIDs]
       /\ UNCHANGED <<messages, issued, config, tracker, body, session, host, loads>>

Limits == {NoLimit} \cup {NumberLimit(n) : n \in (-1)..MaxLimit}

\* The whole machine.
Next ==
    \/ Return
    \/ \E kind \in Kinds : HostAppend(kind, MaxFew)
    \/ HostDrop
    \/ \E messageIDs \in SeqsOf(MsgIDs, 1, MaxIDs) :
          PruneByIDs(messageIDs, "manual", Undefined)
    \/ \E limit \in Limits : Sweep(limit)
    \/ CollectSweepCandidates
    \/ GetPrunableInventory
    \/ CreateTransformedView
    \/ \E input \in PruneInputs : DcpPrune(input)
    \/ \E input \in DistillInputs : DcpDistill(input)

Spec == Init /\ [][Next]_vars

\* Sweeps after any direct pruning, on longer histories.
NextSweep ==
    \/ Return
    \/ \E kind \in Kinds : HostAppend(kind, MaxMsgs)
    \/ \E messageIDs \in SeqsOf(MsgIDs, 1, MaxIDs) :
          PruneByIDs(messageIDs, "manual", Undefined)
    \/ \E limit \in Limits : Sweep(limit)
    \/ \E limit \in Limits : SweepAgain(limit)
    \/ CollectSweepCandidates

SpecSweep == Init /\ [][NextSweep]_vars

\* Inventory queries between prunings, on longer histories.
NextInventory ==
    \/ Return
    \/ \E kind \in Kinds : HostAppend(kind, MaxMsgs)
    \/ HostDrop
    \/ \E messageIDs \in SeqsOf(MsgIDs, 1, MaxIDs) :
          PruneByIDs(messageIDs, "manual", Undefined)
    \/ GetPrunableInventory

SpecInventory == Init /\ [][NextInventory]_vars

(***************************************************************************)
(* Requests passing the tool tracker                                       *)
(***************************************************************************)
MaxBody == 2      \* the longest data array the host sends
MaxCount == 3     \* Gemini results are counted up to this total

Text(s) == StringValue(s)

ToolMessage(id) ==
    [role |-> "tool", tool_call_id |-> id, content |-> Text(<<"r">>),
     synthetic |-> FALSE, ignored |-> FALSE, info |-> UndefinedObj]

ChatMessage(role, content) ==
    [role |-> role, tool_call_id |-> Undefined, content |-> content,
     synthetic |-> FALSE, ignored |-> FALSE, info |-> UndefinedObj]

ToolResultPart(id) ==
    [type |-> "tool_result", tool_use_id |-> id, text |-> UndefinedPath,
     ignored |-> FALSE]

TextPart(type, text, ignored) ==
    [type |-> type, tool_use_id |-> Undefined, text |-> text, ignored |-> ignored]

ChatItems ==
    {ToolMessage(id) : id \in {"c1", "C1", "c2", Undefined}}
    \cup {ChatMessage("user", content) :
            content \in {Text(<<"a">>), Text(<<"i", "j">>), UndefinedValue,
                         ArrayValue(<<ToolResultPart("c3"), ToolResultPart("c4"),
                                      TextPart("text", <<"a">>, FALSE)>>),
                         ArrayValue(<<ToolResultPart("c5"), ToolResultPart("")>>),
                         ArrayValue(<<TextPart("text", <<"a">>, TRUE)>>)}}
    \cup {[ChatMessage("user", Text(<<"a">>)) EXCEPT !.info = [ignored |-> TRUE]],
          ChatMessage("assistant", Text(<<"a">>))}

FunctionResponsePart(name) ==
    [functionResponse |-> [name |-> name], text |-> UndefinedPath]

GeminiTextPart(text) == [functionResponse |-> UndefinedObj, text |-> text]

GeminiItems ==
    {[role |-> "user", parts |-> parts] :
        parts \in {ArrayValue(<<FunctionResponsePart("Read")>>),
                   ArrayValue(<<FunctionResponsePart(Undefined),
                                FunctionResponsePart("Read")>>),
                   ArrayValue(<<GeminiTextPart(<<"a">>)>>),
                   ArrayValue(<<GeminiTextPart(<<>>)>>),
                   UndefinedValue}}
    \cup {[role |-> "model", parts |-> ArrayValue(<<GeminiTextPart(<<"a">>)>>)]}

ResponsesItem(type, role, call_id, content) ==
    [type |-> type, role |-> role, call_id |-> call_id, content |-> content,
     output |-> IF type = "function_call_output" THEN <<"r">> ELSE UndefinedPath,
     name |-> IF type = "function_call_output" THEN "Grep" ELSE Undefined]

ResponsesItems ==
    {ResponsesItem("function_call_output", Undefined, id, UndefinedValue) :
        id \in {"c1", "C1", "c2", "c3", Undefined}}
    \cup {ResponsesItem("message", "user", Undefined, content) :
            content \in {Text(<<"a">>), Text(<<"i", "j">>),
                         ArrayValue(<<TextPart("input_text", <<"a">>, FALSE)>>)}}
    \cup {ResponsesItem("message", "assistant", Undefined, Text(<<"a">>))}

ItemsOf(format) ==
    CASE format = "chat" -> ChatItems
      [] format = "gemini" -> GeminiItems
      [] format = "responses" -> ResponsesItems

Freqs == {1, 2, 5}
NudgeTexts == {<<"n">>}
Instructions == {<<"i">>, <<"i", "j">>}

\* The host sends a request; a session keeps the format of its provider.
HostRequest(format, data) ==
    /\ last = Idle
    /\ body.format \in {"none", format}
    /\ body' = [format |-> format, data |-> data]
    /\ UNCHANGED <<messages, issued, config, state, queried, last, tracker, session, host, loads>>

\* A call may follow a call of the same function directly; the record of
\* the earlier call is then kept in prev.
MayCall(op) == last = Idle \/ (last.op = op /\ last.prev = Idle)

\* What a nudge injection returning r leaves.
NudgeCall(op, nudgeText, freq, r) ==
    /\ body' = [body EXCEPT !.data = r.data]
    /\ tracker' = r.tracker
    /\ last' = [op |-> op, nudgeText |-> nudgeText, freq |-> freq,
                before |-> [data |-> body.data, tracker |-> tracker],
                result |-> r.result, prev |-> last]
    /\ UNCHANGED <<messages, issued, config, state, queried, session, host, loads>>

InjectNudge(nudgeText, freq) ==
    /\ MayCall("injectNudge")
    /\ body.format = "chat"
    /\ NudgeCall("injectNudge", nudgeText, freq,
                 injectNudge(body.data, tracker, nudgeText, freq))

InjectNudgeGemini(nudgeText, freq) ==
    /\ MayCall("injectNudgeGemini")
    /\ body.format = "gemini"
    /\ tracker.toolResultCount < MaxCount
    /\ NudgeCall("injectNudgeGemini", nudgeText, freq,
                 injectNudgeGemini(body.data, tracker, nudgeText, freq))

InjectNudgeResponses(nudgeText, freq) ==
    /\ MayCall("injectNudgeResponses")
    /\ body.format = "responses"
    /\ NudgeCall("injectNudgeResponses", nudgeText, freq,
                 injectNudgeResponses(body.data, tracker, nudgeText, freq))

\* What an instruction injection returning r leaves.
SynthCall(op, instruction, r) ==
    /\ body' = [body EXCEPT !.data = r.data]
    /\ last' = [op |-> op, instruction |-> instruction,
                before |-> [data |-> body.data, tracker |-> tracker],
                result |-> r.result, prev |-> last]
    /\ UNCHANGED <<messages, issued, config, state, queried, tracker, session, host, loads>>

InjectSynth(instruction) ==
    /\ MayCall("injectSynth")
    /\ body.format = "chat"
    /\ SynthCall("injectSynth", instruction, injectSynth(body.data, instruction))

InjectSynthGemini(instruction) ==
    /\ MayCall("injectSynthGemini")
    /\ body.format = "gemini"
    /\ SynthCall("injectSynthGemini", instruction,
                 injectSynthGemini(body.data, instruction))

InjectSynthResponses(instruction) ==
    /\ MayCall("injectSynthResponses")
    /\ body.format = "responses"
    /\ SynthCall("injectSynthResponses", instruction,
                 injectSynthResponses(body.data, instruction))

\* Requests of the three formats, their tool results and instructions.
NextTracker ==
    \/ Return
    \/ \E format \in {"chat", "gemini", "responses"} :
          \E data \in SeqsOf(ItemsOf(format), 0, MaxBody) : HostRequest(format, data)
    \/ \E nudgeText \in NudgeTexts, freq \in Freqs : InjectNudge(nudgeText, freq)
    \/ \E nudgeText \in NudgeTexts, freq \in Freqs : InjectNudgeGemini(nudgeText, freq)
    \/ \E nudgeText \in NudgeTexts, freq \in Freqs : InjectNudgeResponses(nudgeText, freq)
    \/ \E instruction \in Instructions : InjectSynth(instruction)
    \/ \E instruction \in Instructions : InjectSynthGemini(instruction)
    \/ \E instruction \in Instructions : InjectSynthResponses(instruction)

SpecTracker == Init /\ [][NextTracker]_vars

\* The request pipeline in its order: the nudge injection of a request
\* and, when it appended a nudge, the instruction injection on the same
\* array.
AfterNudge(op) == last.op = op /\ last.prev = Idle /\ last.result

InjectSynthAfterNudge(instruction) ==
    /\ AfterNudge("injectNudge")
    /\ SynthCall("injectSynth", instruction, injectSynth(body.data, instruction))

InjectSynthGeminiAfterNudge(instruction) ==
    /\ AfterNudge("injectNudgeGemini")
    /\ SynthCall("injectSynthGemini", instruction,
                 injectSynthGemini(body.data, instruction))

InjectSynthResponsesAfterNudge(instruction) ==
    /\ AfterNudge("injectNudgeResponses")
    /\ SynthCall("injectSynthResponses", instruction,
                 injectSynthResponses(body.data, instruction))

NextOrder ==
    \/ Return
    \/ \E format \in {"chat", "gemini", "responses"} :
          \E data \in SeqsOf(ItemsOf(format), 0, MaxBody) : HostRequest(format, data)
    \/ \E nudgeText \in NudgeTexts, freq \in Freqs :
          last = Idle /\ InjectNudge(nudgeText, freq)
    \/ \E nudgeText \in NudgeTexts, freq \in Freqs :
          last = Idle /\ InjectNudgeGemini(nudgeText, freq)
    \/ \E nudgeText \in NudgeTexts, freq \in Freqs :
          last = Idle /\ InjectNudgeResponses(nudgeText, freq)
    \/ \E instruction \in Instructions : InjectSynthAfterNudge(instruction)
    \/ \E instruction \in Instructions : InjectSynthGeminiAfterNudge(instruction)
    \/ \E instruction \in Instructions : InjectSynthResponsesAfterNudge(instruction)

SpecOrder == Init /\ [][NextOrder]_vars

(***************************************************************************)
(* Calls of the match resolver                                             *)
(***************************************************************************)
MaxSession == 3   \* the longest session handed to the resolver

SessionPart(type, text) ==
    [type |-> type, text |-> text, state |-> UndefinedObj,
     summary |-> UndefinedPath, result |-> UndefinedPath]

ToolPart(toolState) ==
    [type |-> "tool", text |-> UndefinedPath, state |-> toolState,
     summary |-> UndefinedPath, result |-> UndefinedPath]

SessionParts ==
    {ArrayValue(<<SessionPart("text", <<"a", "b">>)>>),
     ArrayValue(<<SessionPart("text", <<"a">>), SessionPart("reasoning", <<"b">>)>>),
     ArrayValue(<<ToolPart([status |-> "completed", output |-> <<"b">>,
                            error |-> UndefinedPath, input |-> <<"a">>])>>),
     ArrayValue(<<ToolPart([status |-> "error", output |-> <<"a", "b">>,
                            error |-> <<"c">>, input |-> UndefinedPath]),
                  [SessionPart("subtask", UndefinedPath)
                      EXCEPT !.summary = <<"a">>, !.result = <<"c">>]>>),
     ArrayValue(<<[SessionPart("compaction", <<"a", "b">>) EXCEPT !.summary = <<"c">>],
                  SessionPart("step-start", <<"a", "b">>)>>),
     UndefinedValue}

\* The session messages with the given parts, under the ids of the host.
SessionOf(parts) ==
    [i \in 1..Len(parts) |-> [info |-> [id |-> MsgID(i)], parts |-> parts[i]]]

SearchStrings == {<<"a", "b">>, <<"c">>}
Scores == {0, 80, 95, 100}
FuzzyConfigs == {DEFAULT_FUZZY_CONFIG, [minScore |-> 80, minGap |-> 15]}

\* The scores the fuzzy library may give: 100 for a content that contains
\* the string, 0 for an empty content.
ScoresFor(msgs, searchString) ==
    {scores \in [1..Len(msgs) -> Scores] :
       \A i \in 1..Len(msgs) :
          /\ Includes(extractMessageContent(msgs[i]), searchString) => scores[i] = 100
          /\ extractMessageContent(msgs[i]) = <<>> => scores[i] = 0}

\* What a call of the resolver leaves.
ResolverCall(msgs, searchString, scores, fuzzyConfig) ==
    /\ last' = [op |-> "findStringInMessages", messages |-> msgs,
                searchString |-> searchString, scores |-> scores,
                fuzzyConfig |-> fuzzyConfig,
                result |-> findStringInMessages(msgs, searchString, scores, fuzzyConfig)]
    /\ UNCHANGED <<messages, issued, config, state, queried, tracker, body, session, host, loads>>

\* A call on some session, with some scores of the fuzzy library.
FindStringInMessages ==
    /\ last = Idle
    /\ \E parts \in SeqsOf(SessionParts, 0, MaxSession),
          searchString \in SearchStrings, fuzzyConfig \in FuzzyConfigs :
          \E scores \in ScoresFor(SessionOf(parts), searchString) :
             ResolverCall(SessionOf(parts), searchString, scores, fuzzyConfig)

NextResolver ==
    \/ Return
    \/ FindStringInMessages

SpecResolver == Init /\ [][NextResolver]_vars

(***************************************************************************)
(* The session state, the Responses descriptor and the host transport      *)
(***************************************************************************)
MaxTools == 2     \* the most tool ids a session records as pruned

ToolIDs == {"c1", "c2"}

\* What loadSessionState may return: null, a full state, a state without
\* stats, a state whose prune has no toolIds.
PersistedStates ==
    {NullState,
     [prune |-> [toolIds |-> <<"c2">>],
      stats |-> [pruneTokenCounter |-> 1, totalPruneTokens |-> 2]],
     [prune |-> [toolIds |-> <<"c1", "c2">>], stats |-> UndefinedObj],
     [prune |-> EmptyMap, stats |-> [totalPruneTokens |-> 2]]}

\* The tool cache records the parameters of a tool call of the request.
CacheToolParameters(toolId) ==
    /\ last = Idle
    /\ toolId \notin DOMAIN session.toolParameters
    /\ session' = [session EXCEPT !.toolParameters =
                      (toolId :> [tool |-> "read", parameters |-> "p"]) @@ @]
    /\ UNCHANGED <<messages, issued, config, state, queried, last, tracker, body, host, loads>>

\* A pruning run records a tool id as pruned and counts its tokens.
RecordPruned(toolId) ==
    /\ last = Idle
    /\ session.sessionId # NullID
    /\ Len(session.prune.toolIds) < MaxTools
    /\ toolId \notin Range(session.prune.toolIds)
    /\ session' = [session EXCEPT
                      !.prune.toolIds = Append(@, toolId),
                      !.stats.pruneTokenCounter = @ + 1,
                      !.stats.totalPruneTokens = @ + 1]
    /\ UNCHANGED <<messages, issued, config, state, queried, last, tracker, body, host, loads>>

ResetSessionState ==
    /\ last = Idle
    /\ session' = resetSessionState(session)
    /\ last' = [op |-> "resetSessionState", before |-> session]
    /\ UNCHANGED <<messages, issued, config, state, queried, tracker, body, host, loads>>

\* What a call of ensureSessionInitialized that ends in r leaves.
EnsureCall(sessionId, persisted, r) ==
    /\ session' = r.state
    /\ last' = [op |-> "ensureSessionInitialized", sessionId |-> sessionId,
                persisted |-> persisted, before |-> session, loaded |-> r.loaded]
    /\ UNCHANGED <<messages, issued, config, state, queried, tracker, body, host, loads>>

EnsureSessionInitialized(sessionId, persisted) ==
    /\ last = Idle
    /\ EnsureCall(sessionId, persisted,
                  ensureSessionInitialized(session, sessionId, persisted))

Listings ==
    {Throws, NoData, [data |-> <<>>],
     [data |-> <<[id |-> "s1", parentID |-> Undefined],
                 [id |-> "s2", parentID |-> "s1"]>>],
     [data |-> <<[id |-> "s2", parentID |-> Undefined],
                 [id |-> "s1", parentID |-> Undefined]>>]}

PrunedIdMaps ==
    {EmptyMap, "s1" :> <<"c1">>, ("s1" :> <<"c1", "c2">>) @@ ("s2" :> <<"c3">>)}

GetAllPrunedIds(listed, prunedIds) ==
    /\ last = Idle
    /\ last' = [op |-> "getAllPrunedIds", listed |-> listed, prunedIds |-> prunedIds,
                result |-> getAllPrunedIds(listed, prunedIds)]
    /\ UNCHANGED <<messages, issued, config, state, queried, tracker, body, session, host, loads>>

MessageResponses ==
    {Throws, NoData, [data |-> UndefinedValue], [data |-> ArrayValue(<<>>)],
     [data |-> ArrayValue(<<"m1", "m2">>)], ArrayValue(<<"m1">>)}

FetchSessionMessages(response) ==
    /\ last = Idle
    /\ last' = [op |-> "fetchSessionMessages", response |-> response,
                result |-> fetchSessionMessages(response)]
    /\ UNCHANGED <<messages, issued, config, state, queried, tracker, body, session, host, loads>>

NextSession ==
    \/ Return
    \/ \E toolId \in ToolIDs : CacheToolParameters(toolId)
    \/ \E toolId \in ToolIDs : RecordPruned(toolId)
    \/ ResetSessionState
    \/ \E sessionId \in SessionIDs, persisted \in PersistedStates :
          EnsureSessionInitialized(sessionId, persisted)
    \/ \E listed \in Listings, prunedIds \in PrunedIdMaps :
          GetAllPrunedIds(listed, prunedIds)
    \/ \E response \in MessageResponses : FetchSessionMessages(response)

SpecSession == Init /\ [][NextSession]_vars

(***************************************************************************)
(* Calls of ensureSessionInitialized that overlap                          *)
(*                                                                         *)
(* The code between two awaits runs without interruption; a call that      *)
(* waits for loadSessionState resumes in any order with the other calls.   *)
(* Persistence is outside the plugin: a pruning run stores the prune and   *)
(* stats of the state under its session id, a load returns what is stored. *)
(***************************************************************************)
MaxCalls == 3     \* the calls of ensureSessionInitialized between two pauses

\* A pruning run of the active session, while no call is in progress: it
\* records a tool id as pruned, counts its tokens and saves the snapshot.
PruneAndSave(toolId) ==
    LET pruned == [session EXCEPT
                      !.prune.toolIds = Append(@, toolId),
                      !.stats.pruneTokenCounter = @ + 1,
                      !.stats.totalPruneTokens = @ + 1]
    IN /\ last = Idle
       /\ loads.started = 0
       /\ session.sessionId # NullID
       /\ Len(session.prune.toolIds) < MaxTools
       /\ toolId \notin Range(session.prune.toolIds)
       /\ session' = pruned
       /\ loads' = [loads EXCEPT !.storage[session.sessionId] =
                       [prune |-> pruned.prune, stats |-> pruned.stats]]
       /\ UNCHANGED <<messages, issued, config, state, queried, last, tracker, body,
                      host>>

\* A call starts and runs to its return or to its await.
EnsureStart(sessionId) ==
    LET r == ensureBeforeLoad(session, sessionId)
        call == loads.started + 1
    IN /\ last = Idle
       /\ loads.started < MaxCalls
       /\ session' = r.state
       /\ loads' = [loads EXCEPT
                      !.started = call,
                      !.waiting = IF r.waits
                                  THEN Append(@, [call |-> call, sessionId |-> sessionId])
                                  ELSE @,
                      !.resolved = IF r.waits THEN NoCall
                                   ELSE [call |-> call, sessionId |-> sessionId,
                                         loaded |-> FALSE,
                                         overlapped |-> loads.waiting # <<>>]]
       /\ UNCHANGED <<messages, issued, config, state, queried, last, tracker, body,
                      host>>

\* The load of a waiting call returns and the call runs to its end.
EnsureResume(i) ==
    LET w == loads.waiting[i]
        persisted == loads.storage[w.sessionId]
    IN /\ session' = ensureAfterLoad(session, persisted)
       /\ loads' = [loads EXCEPT
                      !.waiting = SubSeq(@, 1, i - 1) \o SubSeq(@, i + 1, Len(@)),
                      !.resolved = [call |-> w.call, sessionId |-> w.sessionId,
                                    loaded |-> TRUE,
                                    overlapped |-> Len(loads.waiting) > 1
                                                   \/ loads.started > w.call]]
       /\ UNCHANGED <<messages, issued, config, state, queried, last, tracker, body,
                      host>>

\* Every call has resolved and the host goes on.
EnsurePause ==
    /\ loads.started > 0
    /\ loads.waiting = <<>>
    /\ loads' = [loads EXCEPT !.started = 0, !.resolved = NoCall]
    /\ UNCHANGED <<messages, issued, config, state, queried, last, tracker, body,
                   session, host>>

NextOverlap ==
    \/ \E toolId \in ToolIDs : PruneAndSave(toolId)
    \/ \E sessionId \in SessionIDs : EnsureStart(sessionId)
    \/ \E i \in 1..Len(loads.waiting) : EnsureResume(i)
    \/ EnsurePause

SpecOverlap == Init /\ [][NextOverlap]_vars

\* What a call of replaceToolOutput that ends in r leaves.
ReplaceCall(toolId, prunedMessage, r) ==
    /\ body' = [body EXCEPT !.data = r.data]
    /\ last' = [op |-> "replaceToolOutput", toolId |-> toolId,
                prunedMessage |-> prunedMessage,
                before |-> [data |-> body.data], result |-> r.result]
    /\ UNCHANGED <<messages, issued, config, state, queried, tracker, session, host, loads>>

ReplaceToolOutput(toolId, prunedMessage) ==
    /\ last = Idle
    /\ body.format = "responses"
    /\ ReplaceCall(toolId, prunedMessage,
                   replaceToolOutput(body.data, toolId, prunedMessage))

\* The request handler replaces, in a request that has tool outputs, the
\* output of every extracted tool id by the placeholder.
ReplaceExtracted ==
    /\ last = Idle
    /\ body.format = "responses"
    /\ hasToolOutputs(body.data)
    /\ body' = [body EXCEPT !.data =
                   ReplaceEach(body.data,
                               extractToolOutputs(body.data, session.toolParameters),
                               PRUNED_CONTENT_MESSAGE)]
    /\ last' = [op |-> "replaceExtracted", before |-> [data |-> body.data],
                outputs |-> extractToolOutputs(body.data, session.toolParameters)]
    /\ UNCHANGED <<messages, issued, config, state, queried, tracker, session, host, loads>>

ReplaceIDs == {"c1", "C1", "c2", "Ls"}

NextAdapter ==
    \/ Return
    \/ \E data \in SeqsOf(ItemsOf("responses"), 0, MaxBody) : HostRequest("responses", data)
    \/ \E toolId \in ToolIDs : CacheToolParameters(toolId)
    \/ \E toolId \in ReplaceIDs : ReplaceToolOutput(toolId, PRUNED_CONTENT_MESSAGE)
    \/ ReplaceExtracted

SpecAdapter == Init /\ [][NextAdapter]_vars

(***************************************************************************)
(* The /dcp command of the host                                            *)
(***************************************************************************)
\* What a user types after the slash, and a call without a string.
CommandInputs ==
    {UndefinedValue,
     CharsValue(<<"/", "d", "c", "p", " ", "s", "w", "e", "e", "p">>),
     CharsValue(<<"/", "D", "C", "P", " ", "S", "w", "e", "e", "p", " ", "1">>),
     CharsValue(<<" ", "s", "w", "e", "e", "p", " ", " ", "2", " ">>),
     CharsValue(<<"/", "d", "c", "p", " ", "s", "w", "e", "e", "p", " ", "0">>),
     CharsValue(<<"/", "d", "c", "p", " ", "s", "w", "e", "e", "p", " ", "-", "1">>),
     CharsValue(<<"/", "d", "c", "p", " ", "s", "w", "e", "e", "p", " ", "1", "x">>),
     CharsValue(<<"/", "d", "c", "p", " ", "s", "w", "e", "e", "p", " ", "a", "l", "l">>),
     CharsValue(<<"/", "d", "c", "p", " ", "c", "o", "n", "t", "e", "x", "t">>),
     CharsValue(<<"/", "d", "c", "p", " ", "s", "t", "a", "t", "s">>),
     CharsValue(<<"/", "d", "c", "p">>),
     CharsValue(<<"/", "d", "c", "p", " ", "p", "r", "u", "n", "e">>)}

\* The runtime the host hands to the handler: its message list, or nothing.
Runtimes == {RuntimeValue(ArrayValue(messages)), UndefinedValue}

DcpCommand(rawInput, runtime) ==
    LET got == dcpCommand(rawInput, runtime, state, config)
    IN /\ state' = got.state
       /\ queried' = IF Subcommand(CommandArgs(rawInput))
                         = <<"c", "o", "n", "t", "e", "x", "t">>
                      THEN PrunablePairs(extractMessages(runtime),
                                         state.prunedByID, config)
                      ELSE queried
       /\ last' = [op |-> "dcpCommand", pre |-> Writable(state),
                   rawInput |-> rawInput, runtime |-> runtime,
                   reply |-> got.reply, sweep |-> got.sweep]
       /\ UNCHANGED <<messages, issued, config, tracker, body, session, host, loads>>

\* The pruning entry points next to the command, on short histories.
NextCommand ==
    \/ Return
    \/ \E kind \in Kinds : HostAppend(kind, MaxFew)
    \/ \E messageIDs \in SeqsOf(MsgIDs, 1, MaxIDs) :
          PruneByIDs(messageIDs, "manual", Undefined)
    \/ \E limit \in Limits : Sweep(limit)
    \/ \E input \in PruneInputs : DcpPrune(input)
    \/ \E input \in DistillInputs : DcpDistill(input)
    \/ /\ last = Idle
       /\ \E rawInput \in CommandInputs, runtime \in Runtimes :
             DcpCommand(rawInput, runtime)

\* The extension is created with the configuration of the host, which may
\* switch the commands off.
InitCommand ==
    /\ messages = <<>>
    /\ issued = 0
    /\ config \in {normalizeConfig(raw) :
                     raw \in RawConfigs
                             \cup {[protectedTools |-> <<"READ">>,
                                    protectedFilePatterns |->
                                       <<<<"*", "/", "k">>, <<"*", "*", "/", "k">>>>,
                                    commands |-> [enabled |-> FALSE]]}}
    /\ state = createState
    /\ queried = <<>>
    /\ last = Idle
    /\ tracker = createToolTracker
    /\ body = [format |-> "none", data |-> <<>>]
    /\ session = createSessionState
    /\ host = NotLoaded
    /\ loads = NoLoads

SpecCommand == InitCommand /\ [][NextCommand]_vars

\* The exposed surface alone: the two tools and the command, between
\* appends and compactions of the host.
NextSurface ==
    \/ Return
    \/ \E kind \in Kinds : HostAppend(kind, MaxFew)
    \/ HostDrop
    \/ \E input \in PruneInputs : DcpPrune(input)
    \/ \E input \in DistillInputs : DcpDistill(input)
    \/ /\ last = Idle
       /\ \E rawInput \in CommandInputs, runtime \in Runtimes :
             DcpCommand(rawInput, runtime)

SpecSurface == Init /\ [][NextSurface]_vars

(***************************************************************************)
(* The host loads the plugin                                               *)
(***************************************************************************)
\* The registration methods a host may have: none, a value that is no
\* function, or a function that returns from some of the calls the plugin
\* makes and throws on the others.
ToolMethods ==
    {UndefinedValue, StringValue("x")}
    \cup {FunctionValue(accepts) :
            accepts \in SUBSET (Range(ToolCalls("dcp_prune"))
                                \cup Range(ToolCalls("dcp_distill")))}

CommandMethods ==
    {UndefinedValue}
    \cup {FunctionValue(accepts) : accepts \in SUBSET Range(CommandCalls("dcp"))}

HostConfigs == {UndefinedValue, [enabled |-> TRUE], [enabled |-> FALSE]}

\* The api object of a host, without the properties that are absent.
ApiObject(hostConfig, pluginConfig, registerTool, registerCommand) ==
    [key \in {"t"}
             \cup (IF hostConfig = UndefinedValue THEN {} ELSE {"config"})
             \cup (IF pluginConfig = UndefinedValue THEN {} ELSE {"pluginConfig"})
             \cup (IF registerTool = UndefinedValue THEN {} ELSE {"registerTool"})
             \cup (IF registerCommand = UndefinedValue THEN {} ELSE {"registerCommand"})
     |-> CASE key = "t" -> "object"
           [] key = "config" -> hostConfig
           [] key = "pluginConfig" -> pluginConfig
           [] key = "registerTool" -> registerTool
           [] OTHER -> registerCommand]

Apis ==
    {UndefinedValue}
    \cup {ApiObject(hostConfig, pluginConfig, registerTool, registerCommand) :
            hostConfig \in HostConfigs,
            pluginConfig \in {UndefinedValue, [enabled |-> FALSE]},
            registerTool \in ToolMethods,
            registerCommand \in CommandMethods}

\* The host registers what it returned from, in the order of the calls.
HostReturned(attempt) == attempt.outcome = "returned"

Register(api) ==
    LET got == register(api)
    IN /\ ~host.loaded
       /\ host' = [loaded |-> TRUE, api |-> api, attempts |-> got.attempts,
                   registry |-> SelectSeq(got.attempts, HostReturned),
                   thrown |-> got.thrown, enabled |-> got.extension.enabled]
       /\ UNCHANGED <<messages, issued, config, state, queried, last, tracker, body,
                      session, loads>>

\* The host unloads the plugin and forgets its registrations.
Unload ==
    /\ host.loaded
    /\ host' = NotLoaded
    /\ UNCHANGED <<messages, issued, config, state, queried, last, tracker, body,
                   session, loads>>

NextRegister ==
    \/ \E api \in Apis : Register(api)
    \/ Unload

SpecRegister == Init /\ [][NextRegister]_vars

(***************************************************************************)
(* Properties                                                              *)
(***************************************************************************)
\* The calls that may record a PrunedRecord.
PruningOps == {"pruneByIDs", "sweep", "dcp_prune", "dcp_distill"}

\* Some message of the current list carries the id.
InList(id) == \E i \in 1..Len(messages) : messages[i].id = id

NoRepeat(ids) == Cardinality(Range(ids)) = Len(ids)

RECURSIVE SumChars(_, _)
SumChars(ids, prunedByID) ==
    IF ids = <<>> THEN 0
    ELSE prunedByID[Head(ids)].chars + SumChars(Tail(ids), prunedByID)

\* What a pruning call leaves of the records and the counters: the records
\* it found are the records it leaves, each id of prunedIDs is there once
\* and is an id that had no record, and the counters grow by the number and
\* by the chars of the ids of prunedIDs.
CountedOnce ==
    /\ \A id \in DOMAIN last.pre.prunedByID :
          /\ id \in DOMAIN state.prunedByID
          /\ state.prunedByID[id] = last.pre.prunedByID[id]
    /\ NoRepeat(last.prunedIDs)
    /\ Range(last.prunedIDs) = DOMAIN state.prunedByID \ DOMAIN last.pre.prunedByID
    /\ state.counters.prunedMessages =
          last.pre.counters.prunedMessages + Len(last.prunedIDs)
    /\ state.counters.prunedChars =
          last.pre.counters.prunedChars + SumChars(last.prunedIDs, state.prunedByID)

\* C1, as stated: a pruning call leaves the record and the counters of an id
\* that already has a PrunedRecord as they were, and the id is in none of
\* prunedIDs, protectedIDs and missingIDs of that call.
IdempotentPruningAsStated ==
    last.op \in PruningOps =>
       /\ CountedOnce
       /\ \A id \in DOMAIN last.pre.prunedByID :
             /\ id \notin Range(last.prunedIDs)
             /\ id \notin Range(last.protectedIDs)
             /\ id \notin Range(last.missingIDs)

\* C1, amended: a pruning call leaves the record and the counters of an id
\* that already has a PrunedRecord as they were (an id repeated in one call
\* is recorded and counted once), and the id is in neither prunedIDs nor
\* protectedIDs of that call; it is in missingIDs only when no message of
\* the call's list carries it, and pruneByIDs then reports it there.
IdempotentPruning ==
    last.op \in PruningOps =>
       /\ CountedOnce
       /\ \A id \in DOMAIN last.pre.prunedByID :
             /\ id \notin Range(last.prunedIDs)
             /\ id \notin Range(last.protectedIDs)
             /\ id \in Range(last.missingIDs) => ~InList(id)
       /\ last.op = "pruneByIDs" =>
             \A id \in Range(last.messageIDs) :
                id \in Range(last.missingIDs) <=> ~InList(id)

\* A pruneByIDs call was asked twice for an id that had a record and whose
\* message is in the list.
IdempotentPruningWitness ==
    /\ last.op = "pruneByIDs"
    /\ \E id \in DOMAIN last.pre.prunedByID :
          /\ InList(id)
          /\ \E i, j \in 1..Len(last.messageIDs) :
                i # j /\ last.messageIDs[i] = id /\ last.messageIDs[j] = id

\* Protection as C2 words it: the tool name, compared without regard to
\* case, is a built-in or a configured protected tool name, or the inferred
\* file path matches a configured glob.
NameProtected(message) ==
    /\ IsString(message.toolName)
    /\ \/ ToLowerCase(message.toolName) \in DEFAULT_PROTECTED_TOOLS
       \/ \E name \in Range(config.protectedTools) :
             ToLowerCase(name) = ToLowerCase(message.toolName)

PathProtected(message) ==
    /\ inferFilePath(message) # <<>>
    /\ \E pattern \in Range(config.protectedFilePatterns) :
          globMatch(inferFilePath(message), pattern)

\* C2: a protected message has no PrunedRecord, whatever calls were made; a
\* pruneByIDs call that names it returns its id in protectedIDs and not in
\* prunedIDs.
ProtectionPrecedence ==
    \A i \in 1..Len(messages) :
       (NameProtected(messages[i]) \/ PathProtected(messages[i])) =>
          /\ messages[i].id \notin DOMAIN state.prunedByID
          /\ (last.op = "pruneByIDs" /\ messages[i].id \in Range(last.messageIDs)) =>
                /\ messages[i].id \in Range(last.protectedIDs)
                /\ messages[i].id \notin Range(last.prunedIDs)

\* One pruneByIDs call named a message protected by its configured tool
\* name, written in another case, and a message protected by its file path
\* alone.
ProtectionPrecedenceWitness ==
    /\ last.op = "pruneByIDs"
    /\ Len(last.protectedIDs) = 2
    /\ \E i, j \in 1..Len(messages) :
          /\ {messages[i].id, messages[j].id} = Range(last.protectedIDs)
          /\ NameProtected(messages[i]) /\ ~PathProtected(messages[i])
          /\ messages[i].toolName \notin Range(config.protectedTools)
          /\ PathProtected(messages[j]) /\ ~NameProtected(messages[j])

\* The index in the current list of the message that carries the id.
IndexOf(id) == CHOOSE i \in 1..Len(messages) : messages[i].id = id

\* No message at index i or later has role user.
AfterLastUser(i) == \A k \in i..Len(messages) : messages[k].role # "user"

SweptOnly(ids) ==
    \A id \in ids :
       /\ InList(id)
       /\ isToolLikeMessage(messages[IndexOf(id)])
       /\ AfterLastUser(IndexOf(id))

\* C3: the ids sweep prunes and the ids collectSweepCandidates returns are
\* ids of tool-like messages strictly after the last message of role user;
\* a sweep leaves every message at or before that index as it found it,
\* and collectSweepCandidates writes nothing.
SweepBoundary ==
    /\ last.op = "sweep" =>
          /\ SweptOnly(Range(last.prunedIDs) \cup Range(last.candidates))
          /\ SweptOnly(DOMAIN state.prunedByID \ DOMAIN last.pre.prunedByID)
          /\ \A i \in 1..Len(messages) :
                ~AfterLastUser(i) =>
                   (messages[i].id \in DOMAIN state.prunedByID
                      <=> messages[i].id \in DOMAIN last.pre.prunedByID)
    /\ last.op = "collectSweepCandidates" =>
          /\ SweptOnly(Range(last.candidates))
          /\ Writable(state) = last.pre

\* A sweep pruned a message after the last user message and left a prunable
\* tool-like message that stands before that user message.
SweepBoundaryWitness ==
    /\ last.op = "sweep"
    /\ last.prunedIDs # <<>>
    /\ \E i \in 1..Len(messages) :
          /\ ~AfterLastUser(i)
          /\ isToolLikeMessage(messages[i])
          /\ ~isProtectedMessage(messages[i], config)
          /\ messages[i].id \notin DOMAIN state.prunedByID

Min(a, b) == IF a <= b THEN a ELSE b

\* What C4 says of a sweep with the positive limit L on the candidates
\* cands, the candidates of the state the sweep found.
LimitedTo(L, cands) ==
    /\ last.prunedIDs = SubSeq(cands, Len(cands) - Min(L, Len(cands)) + 1, Len(cands))
    /\ last.candidateCount = Len(cands)
    /\ last.usedLimit = NumberLimit(L)
    /\ \A i \in 1..Len(cands) :
          cands[i] \in DOMAIN state.prunedByID
             <=> i > Len(cands) - Min(L, Len(cands))

\* C4: a sweep with a positive limit L on n candidates prunes the last
\* min(L, n) of them, returns them in document order, reports
\* candidateCount n and usedLimit L, and leaves the earlier candidates
\* without a record.
SweepLimit ==
    (last.op = "sweep" /\ IsUsableLimit(last.limit)) =>
       LimitedTo(last.limit.n,
                 collectSweepCandidates(messages, last.pre.prunedByID, config))

\* A sweep with limit 2 found three candidates.
SweepLimitWitness ==
    /\ last.op = "sweep"
    /\ last.limit = NumberLimit(2)
    /\ last.candidateCount = 3
    /\ Len(last.prunedIDs) = 2

\* The candidates of the first sweep that the first sweep left.
LeftByFirst ==
    LET Left(id) == id \notin Range(last.before.prunedIDs)
    IN SelectSeq(last.before.candidates, Left)

\* C5: an unlimited sweep right after a sweep on the same message list
\* prunes the candidates of the first sweep that the first sweep left, and
\* no other; the two prunedIDs lists are disjoint and every candidate of the
\* first sweep is in one of them once.
SweepCompletion ==
    (last.op = "sweep" /\ last.before.sweep /\ ~IsUsableLimit(last.limit)) =>
       /\ last.prunedIDs = LeftByFirst
       /\ Range(last.prunedIDs) \cap Range(last.before.prunedIDs) = {}
       /\ Range(last.prunedIDs) \cup Range(last.before.prunedIDs)
             = Range(last.before.candidates)
       /\ NoRepeat(last.before.prunedIDs \o last.prunedIDs)
       /\ Range(last.before.candidates) \subseteq DOMAIN state.prunedByID

\* A sweep with limit 1 left two of its three candidates, and the sweep
\* without limit that followed pruned them.
SweepCompletionWitness ==
    /\ last.op = "sweep"
    /\ last.before.sweep
    /\ last.before.limit = NumberLimit(1)
    /\ Len(last.before.candidates) = 3
    /\ last.limit = NoLimit
    /\ Len(last.prunedIDs) = 2

\* The ids of the tool-like messages of the current list that have no
\* record and are not protected, in document order.
PrunableNow ==
    IDsAt(messages,
          {i \in 1..Len(messages) :
              /\ isToolLikeMessage(messages[i])
              /\ messages[i].id \notin DOMAIN state.prunedByID
              /\ ~(NameProtected(messages[i]) \/ PathProtected(messages[i]))},
          1)

\* The inventory and the returned entries number the ids 1, 2, ... in order.
Enumerates(inventory, entries, ids) ==
    /\ Len(entries) = Len(ids)
    /\ inventory.entries = entries
    /\ \A i \in 1..Len(ids) :
          /\ entries[i].id = ToString(i)
          /\ entries[i].messageID = ids[i]
          /\ inventory.numericToMessageID[ToString(i)] = ids[i]
          /\ inventory.messageToNumericID[ids[i]] = ToString(i)
    /\ DOMAIN inventory.numericToMessageID = {ToString(i) : i \in 1..Len(ids)}
    /\ DOMAIN inventory.messageToNumericID = Range(ids)

\* C6: right after a getPrunableInventory call the entries it returned and
\* the two maps of the inventory enumerate, in document order and from "1"
\* without gaps, the tool-like messages that are neither pruned nor
\* protected, and the two maps are inverse to each other.
InventoryEnumeration ==
    last.op = "getPrunableInventory" =>
       Enumerates(state.inventory, last.entries, PrunableNow)

\* The query renumbered: the message that was "2" is "1" now, and the
\* message that was "1" has a record.
InventoryEnumerationWitness ==
    /\ last.op = "getPrunableInventory"
    /\ Len(last.inventory.entries) >= 2
    /\ last.inventory.entries[1].messageID \in DOMAIN state.prunedByID
    /\ last.entries # <<>>
    /\ last.entries[1].messageID = last.inventory.entries[2].messageID

\* C7: a getPrunableInventory call that finds the (messageID, chars) pairs
\* of the prunable messages as the query before it found them returns the
\* cached list and leaves the inventory as it is; it rebuilds the inventory
\* only when the pairs, and so the signature, differ.
InventoryStability ==
    last.op = "getPrunableInventory" =>
       /\ queried = last.queried =>
             /\ ~last.rebuilt
             /\ last.entries = last.inventory.entries
             /\ state.inventory = last.inventory
       /\ last.rebuilt =>
             /\ queried # last.queried
             /\ state.inventory.signature # last.inventory.signature

\* A query found the two prunable messages of the query before it, in a
\* list that holds a third message, and returned the cached list.
InventoryStabilityWitness ==
    /\ last.op = "getPrunableInventory"
    /\ ~last.rebuilt
    /\ Len(last.entries) = 2
    /\ Len(messages) = 3
    /\ queried = last.queried

HasRecord(message) == message.id \in DOMAIN state.prunedByID

\* The message of the view that C8 describes for a message with a record.
Replaced(message, shown, record) ==
    /\ shown.id = message.id
    /\ shown.content =
          IF record.distillationID = Undefined
          THEN "[dcp-pruned id=" \o message.id \o " reason=" \o record.reason \o "]"
          ELSE "[dcp-pruned id=" \o message.id \o " reason=" \o record.reason
               \o " distilled=" \o record.distillationID \o "]"
    /\ shown.meta.dcp = [pruned |-> TRUE, originalID |-> message.id,
                         reason |-> record.reason,
                         distillationID |-> record.distillationID]

\* C8: for every message with a PrunedRecord the view holds a message of
\* the same id whose content is "[dcp-pruned id=<id> reason=<reason>]",
\* with " distilled=<distillationID>" before the bracket exactly when the
\* record has a distillationID, and whose meta.dcp carries pruned = true
\* and the id, reason and distillationID of the record.
PlaceholderFormat ==
    last.op = "createTransformedView" =>
       /\ Len(last.view) = Len(messages)
       /\ \A i \in 1..Len(messages) :
             HasRecord(messages[i]) =>
                Replaced(messages[i], last.view[i], state.prunedByID[messages[i].id])

\* A view of a list with a distilled message and a message pruned without
\* a distillation.
PlaceholderFormatWitness ==
    /\ last.op = "createTransformedView"
    /\ \E i, j \in 1..Len(messages) :
          /\ HasRecord(messages[i]) /\ HasRecord(messages[j])
          /\ state.prunedByID[messages[i].id].distillationID # Undefined
          /\ state.prunedByID[messages[j].id].distillationID = Undefined

\* C9: createTransformedView leaves the message list, prunedByID, the
\* counters, the distillations and the inventory as they were (idMap is
\* all it writes); the view has the length and the ids of the list in its
\* order, a message without a record keeps its content, and idMap[id].pruned
\* says whether the id has a record, for every message of the view.
ViewNonDestructive ==
    last.op = "createTransformedView" =>
       /\ messages = last.messages
       /\ Writable(state) = last.pre
       /\ state.inventory = last.inventory
       /\ Len(last.view) = Len(messages)
       /\ \A i \in 1..Len(messages) :
             /\ last.view[i].id = messages[i].id
             /\ ~HasRecord(messages[i]) => last.view[i].content = messages[i].content
             /\ messages[i].id \in DOMAIN state.idMap
             /\ state.idMap[messages[i].id].pruned = HasRecord(messages[i])

\* A view of a list with a pruned message and an unpruned message that has
\* content, taken when records, distillations and an inventory exist.
ViewNonDestructiveWitness ==
    /\ last.op = "createTransformedView"
    /\ state.distillations # <<>>
    /\ state.inventory.entries # <<>>
    /\ \E i, j \in 1..Len(messages) :
          /\ HasRecord(messages[i])
          /\ ~HasRecord(messages[j])
          /\ messages[j].content # Undefined

\* The contents a pruned message may have had instead.
OtherContents == {Undefined, "", "secret"}

\* The message list with other contents in the messages that have a record.
Recontented(contents) ==
    [i \in 1..Len(messages) |->
        IF HasRecord(messages[i])
        THEN [messages[i] EXCEPT !.content = contents[i]]
        ELSE messages[i]]

\* C10: the view of a message list that differs from the current one only
\* in the contents of the messages with a PrunedRecord, under the same
\* state, is the view of the current one.
ViewHidesPrunedContent ==
    last.op = "createTransformedView" =>
       \A contents \in [1..Len(messages) -> OtherContents] :
          createTransformedView(Recontented(contents), state.prunedByID,
                                state.idMap).view = last.view

\* A view of a list whose two messages have a record and had content.
ViewHidesPrunedContentWitness ==
    /\ last.op = "createTransformedView"
    /\ Len(messages) = 2
    /\ \A i \in 1..Len(messages) :
          /\ HasRecord(messages[i])
          /\ messages[i].content \notin OtherContents
          /\ last.view[i].content # messages[i].content

\* The ids of the tool-like messages of the current list that are not
\* protected and have no record in prunedByID, in document order: the
\* messages the inventory numbers "1", "2", ... when prunedByID is current.
PrunableWith(prunedByID) ==
    IDsAt(messages,
          {i \in 1..Len(messages) :
              /\ isToolLikeMessage(messages[i])
              /\ messages[i].id \notin DOMAIN prunedByID
              /\ ~(NameProtected(messages[i]) \/ PathProtected(messages[i]))},
          1)

\* The inventory id names one of the numbered messages ids.
Resolvable(id, ids) == \E n \in 1..Len(ids) : ToString(n) = id

Resolved(id, ids) == ids[CHOOSE n \in 1..Len(ids) : ToString(n) = id]

\* The non-empty strings of input.ids, when input.ids is an array.
RequestedIDs(input) ==
    IF "ids" \in DOMAIN input /\ input.ids.t = "array"
    THEN LET Given(id) == id # "" IN SelectSeq(input.ids.v, Given)
    ELSE <<>>

\* The messages the inventory ids of `requested` name, `numbered` being the
\* numbered messages.
ResolvedSet(requested, numbered) ==
    {Resolved(id, numbered) : id \in {r \in Range(requested) : Resolvable(r, numbered)}}

UnresolvedOf(requested, numbered) ==
    LET Unknown(id) == ~Resolvable(id, numbered)
    IN SelectSeq(requested, Unknown)

NewRecords == DOMAIN state.prunedByID \ DOMAIN last.pre.prunedByID

\* What C11 says of a dcp_prune call without a usable id.
SweptAll(candidates) ==
    /\ last.result.mode = "sweep"
    /\ last.result.usedLimit = NullLimit
    /\ last.result.candidateCount = Len(candidates)
    /\ last.prunedIDs = candidates
    /\ NewRecords = Range(candidates)
    /\ \A id \in Range(candidates) : state.prunedByID[id].reason = "sweep"

\* What C11 says of a dcp_prune call with the inventory ids `requested`.
PrunedByNumber(requested, numbered) ==
    /\ last.result.mode = "inventory"
    /\ last.result.inventoryIDs = requested
    /\ Range(last.prunedIDs) = ResolvedSet(requested, numbered)
    /\ NewRecords = ResolvedSet(requested, numbered)
    /\ \A id \in NewRecords : state.prunedByID[id].reason # "sweep"
    /\ state.counters.sweeps = last.pre.counters.sweeps

\* C11: dcp_prune with input.ids omitted, not an array or without a
\* non-empty string sweeps without limit and reports mode "sweep"; with a
\* non-empty string in input.ids it reports mode "inventory", reads every
\* id as an inventory number and prunes the messages these resolve to and
\* no other, without a sweep.
PruneModeSelection ==
    last.op = "dcp_prune" =>
       IF RequestedIDs(last.input) = <<>>
       THEN SweptAll(collectSweepCandidates(messages, last.pre.prunedByID, config))
       ELSE PrunedByNumber(RequestedIDs(last.input),
                           PrunableWith(last.pre.prunedByID))

\* A dcp_prune call whose only id resolved to nothing pruned nothing while
\* a sweep would have found a candidate.
PruneModeSelectionWitness ==
    /\ last.op = "dcp_prune"
    /\ RequestedIDs(last.input) # <<>>
    /\ last.result.mode = "inventory"
    /\ last.prunedIDs = <<>>
    /\ collectSweepCandidates(messages, state.prunedByID, config) # <<>>

\* The ids of the targets of a dcp_distill call, each once, in their order.
TargetIDs(input) ==
    LET targets == normalizeTargets(Property(input, "targets"))
    IN [k \in 1..Len(targets) |-> targets[k].id]

\* What C12 says of the unresolved inventory ids of a tool call with the
\* inventory ids `requested`.
ReportedUnresolved(requested, numbered) ==
    /\ last.result.unresolvedInventoryIDs = UnresolvedOf(requested, numbered)
    /\ NewRecords = ResolvedSet(requested, numbered)
    /\ Range(last.prunedIDs) = ResolvedSet(requested, numbered)
    /\ state.counters.prunedMessages =
          last.pre.counters.prunedMessages
             + Cardinality(ResolvedSet(requested, numbered))

\* C12: dcp_prune and dcp_distill return every inventory id that the
\* inventory does not hold in unresolvedInventoryIDs, create no record and
\* count nothing for it, and process the ids of the same call that resolve;
\* pruneByIDs returns a message id that no message carries in missingIDs,
\* leaves the state as it is for it, and prunes the other ids of the call.
UnresolvedReported ==
    /\ (last.op = "dcp_prune" /\ RequestedIDs(last.input) # <<>>) =>
          /\ ReportedUnresolved(RequestedIDs(last.input),
                                PrunableWith(last.pre.prunedByID))
          /\ state.distillations = last.pre.distillations
          /\ state.counters.distillations = last.pre.counters.distillations
    /\ last.op = "dcp_distill" =>
          /\ ReportedUnresolved(TargetIDs(last.input),
                                PrunableWith(last.pre.prunedByID))
          /\ Len(state.distillations) =
                Len(last.pre.distillations)
                   + Cardinality(ResolvedSet(TargetIDs(last.input),
                                             PrunableWith(last.pre.prunedByID)))
          /\ state.counters.distillations = Len(state.distillations)
    /\ last.op = "pruneByIDs" =>
          \A id \in Range(last.messageIDs) :
             IF InList(id)
             THEN id \in DOMAIN state.prunedByID
                     \/ id \in Range(last.protectedIDs)
             ELSE /\ id \in Range(last.missingIDs)
                  /\ id \notin NewRecords

\* A dcp_distill call had a target whose id the inventory does not hold,
\* and distilled another target.
UnresolvedReportedWitness ==
    /\ last.op = "dcp_distill"
    /\ last.result.unresolvedInventoryIDs # <<>>
    /\ last.prunedIDs # <<>>
    /\ Len(state.distillations) > Len(last.pre.distillations)

\* The text dcp_distill stores for a raw target: the text of the target
\* without the blanks around it or, when the target has no text or a
\* blank one, the default text.
StoredText(target) ==
    IF "distillation" \in DOMAIN target /\ Trim(target.distillation) # ""
    THEN Trim(target.distillation)
    ELSE DefaultDistillation

\* The first raw target of the call that carries the inventory id.
RawTarget(input, id) ==
    LET raw == input.targets.v
    IN raw[CHOOSE i \in 1..Len(raw) :
              /\ "id" \in DOMAIN raw[i] /\ raw[i].id = id
              /\ \A k \in 1..(i - 1) : ~("id" \in DOMAIN raw[k] /\ raw[k].id = id)]

\* The targets of the call whose inventory id resolves, in target order.
ResolvedTargets(input, numbered) ==
    LET Known(id) == Resolvable(id, numbered)
    IN SelectSeq(TargetIDs(input), Known)

\* What C13 says of the record made for the target of inventory id `id`
\* that names the message `messageID`.
DistilledAs(record, id, messageID) ==
    /\ record.sourceMessageIDs = <<messageID>>
    /\ record.summary = StoredText(RawTarget(last.input, id))
    /\ messageID \in DOMAIN state.distillationBySourceID
    /\ state.distillationBySourceID[messageID] = record.id
    /\ messageID \in NewRecords
    /\ state.prunedByID[messageID].reason = "distilled"
    /\ state.prunedByID[messageID].distillationID = record.id

DistilledEach(resolved, numbered) ==
    /\ Len(last.result.distillations) = Len(resolved)
    /\ state.distillations = last.pre.distillations \o last.result.distillations
    /\ last.prunedIDs = [k \in 1..Len(resolved) |-> Resolved(resolved[k], numbered)]
    /\ NoRepeat(last.prunedIDs)
    /\ \A k \in 1..Len(resolved) :
          DistilledAs(last.result.distillations[k], resolved[k],
                      Resolved(resolved[k], numbered))

\* C13: dcp_distill creates one DistillationRecord for every target whose
\* inventory id resolves, with the caller's text without the blanks around
\* it (the default text when the caller gave none) and with that message as
\* its only source; distillationBySourceID maps the message to the record,
\* the message is pruned with reason "distilled" and the record's id, the
\* distillations of the result are in target order and prunedIDs holds
\* every resolved message once.
DistillPerTarget ==
    last.op = "dcp_distill" =>
       DistilledEach(ResolvedTargets(last.input, PrunableWith(last.pre.prunedByID)),
                     PrunableWith(last.pre.prunedByID))

\* A dcp_distill call distilled the second message of the inventory with
\* the caller's text and then the first with the default text.
DistillPerTargetWitness ==
    /\ last.op = "dcp_distill"
    /\ Len(last.result.distillations) = 2
    /\ last.result.distillations[1].summary = "s1"
    /\ last.result.distillations[2].summary = DefaultDistillation
    /\ Len(last.prunedIDs) = 2
    /\ IndexOf(last.prunedIDs[1]) > IndexOf(last.prunedIDs[2])

\* C14: counters.distillations is the number of records of
\* state.distillations, the k-th record made has the id built from k, and
\* no two records have the same id.
DistillationIDs ==
    /\ state.counters.distillations = Len(state.distillations)
    /\ \A k \in 1..Len(state.distillations) :
          state.distillations[k].id = "dcp-distill-" \o ToString(k)
    /\ \A j, k \in 1..Len(state.distillations) :
          state.distillations[j].id = state.distillations[k].id => j = k

\* A dcp_distill call made the second record after an earlier call had
\* made the first.
DistillationIDsWitness ==
    /\ last.op = "dcp_distill"
    /\ Len(last.pre.distillations) = 1
    /\ Len(state.distillations) = 2


(***************************************************************************)
(* The tool tracker                                                        *)
(***************************************************************************)
NudgeOps == {"injectNudge", "injectNudgeGemini", "injectNudgeResponses"}
SynthOps == {"injectSynth", "injectSynthGemini", "injectSynthResponses"}

\* The raw ids of the tool results of a chat-completions array.
ChatResultIDs(data) ==
    {data[i].tool_call_id : i \in {k \in 1..Len(data) : data[k].role = "tool"}}
    \cup UNION {{data[i].content.v[j].tool_use_id :
                   j \in {k \in 1..Len(data[i].content.v) :
                            data[i].content.v[k].type = "tool_result"}} :
                i \in {k \in 1..Len(data) :
                         data[k].role = "user" /\ data[k].content.t = "array"}}

\* The raw ids of the tool results of a Responses array.
ResponsesResultIDs(data) ==
    {data[i].call_id :
       i \in {k \in 1..Len(data) : data[k].type = "function_call_output"}}

\* The distinct results known once the ids of a request are observed.
DistinctWith(seen, rawIDs) ==
    seen \cup {ToLowerCase(id) : id \in rawIDs \ {Undefined, ""}}

\* Some multiple of freq lies above prev and not above total.
CrossesMultiple(prev, total, freq) ==
    \E k \in 1..total : prev < k * freq /\ k * freq <= total

\* The call appended one element to the array.
NudgeInjected == Len(body.data) = Len(last.before.data) + 1

\* C15: a chat-completions injectNudge call injects a nudge exactly when
\* the distinct results seen so far cross a multiple of freq in that call,
\* that is when floor(prev/freq) < floor(total/freq); with freq = 5 the
\* nudge comes in the call in which the 5th distinct result is first seen,
\* not before and not again before the 10th.
NudgeBucketCrossing ==
    last.op = "injectNudge" =>
       LET prev == Cardinality(last.before.tracker.seenToolResultIds)
           total == Cardinality(DistinctWith(last.before.tracker.seenToolResultIds,
                                             ChatResultIDs(last.before.data)))
       IN /\ prev = last.before.tracker.toolResultCount
          /\ last.result = CrossesMultiple(prev, total, last.freq)
          /\ last.result = NudgeInjected
          /\ (last.freq = 5 /\ total < 10) => (last.result = (prev < 5 /\ 5 <= total))

\* The 5th distinct result arrives in a call later than the first and the
\* nudge is injected.
NudgeBucketCrossingWitness ==
    /\ last.op = "injectNudge"
    /\ last.freq = 5
    /\ last.before.tracker.toolResultCount \in 1..4
    /\ tracker.toolResultCount = 5
    /\ last.result
    /\ NudgeInjected


\* The text a nudge entry carries, in the format of the request.
NudgeTextOf(entry) ==
    IF body.format = "gemini" THEN entry.parts.v[1].text ELSE entry.content.s

\* C16: one call of injectNudge, injectNudgeGemini or injectNudgeResponses
\* appends at most one nudge entry, however many multiples of freq the new
\* results cross; the entry is the last element of the array and has role
\* user, and the elements that were there are kept as they were, in order.
NudgeAppendedOnce ==
    last.op \in NudgeOps =>
       IF last.result
       THEN /\ Len(body.data) = Len(last.before.data) + 1
            /\ SubSeq(body.data, 1, Len(last.before.data)) = last.before.data
            /\ body.data[Len(body.data)].role = "user"
            /\ NudgeTextOf(body.data[Len(body.data)]) = last.nudgeText
       ELSE body.data = last.before.data

\* Two new results cross two multiples of freq = 1 in one call on an array
\* that is not empty.
NudgeAppendedOnceWitness ==
    /\ last.op \in NudgeOps
    /\ last.freq = 1
    /\ last.result
    /\ tracker.toolResultCount >= last.before.tracker.toolResultCount + 2
    /\ Len(last.before.data) = MaxBody
    /\ Len(body.data) = MaxBody + 1


NativeNudgeOps == {"injectNudge", "injectNudgeResponses"}

\* The raw ids of the tool results the call in progress was given.
NativeResultIDs ==
    IF last.op = "injectNudge" THEN ChatResultIDs(last.before.data)
    ELSE ResponsesResultIDs(last.before.data)

\* C17: with native ids (tool_call_id, tool_use_id, call_id) a result whose
\* id equals a seen id up to letter case is not counted again: a call adds
\* to toolResultCount the number of lower-cased ids it sees for the first
\* time; toolResultCount never decreases and is the size of
\* seenToolResultIds.
TrackerDeduplication ==
    /\ tracker.toolResultCount = Cardinality(tracker.seenToolResultIds)
    /\ last.op \in NativeNudgeOps =>
          LET seen == last.before.tracker.seenToolResultIds
              known == DistinctWith(seen, NativeResultIDs)
          IN /\ tracker.seenToolResultIds = known
             /\ tracker.toolResultCount =
                   last.before.tracker.toolResultCount + Cardinality(known \ seen)
             /\ tracker.toolResultCount >= last.before.tracker.toolResultCount

\* A request brings the id C1 after c1 was seen, and nothing is counted.
TrackerDeduplicationWitness ==
    /\ last.op \in NativeNudgeOps
    /\ "C1" \in NativeResultIDs
    /\ "c1" \in last.before.tracker.seenToolResultIds
    /\ tracker.toolResultCount > 0
    /\ tracker = last.before.tracker


\* The functionResponse parts of a contents array, with their positions.
FunctionResponses(contents) ==
    UNION {{<<i, j, contents[i].parts.v[j].functionResponse>> :
              j \in {k \in 1..Len(contents[i].parts.v) :
                       IsObject(contents[i].parts.v[k].functionResponse)}} :
           i \in {k \in 1..Len(contents) : contents[k].parts.t = "array"}}

\* The call in progress is given the functionResponse parts the call just
\* before it was given.
SameContentsAgain ==
    /\ last.op = "injectNudgeGemini"
    /\ last.prev # Idle
    /\ FunctionResponses(last.before.data) = FunctionResponses(last.prev.before.data)

\* C18: in the Gemini format tool results are deduplicated by their
\* synthetic identity: a second request with the same contents array (the
\* same functionResponse parts) adds nothing to toolResultCount and
\* triggers no nudge.
GeminiDeduplication ==
    SameContentsAgain =>
       /\ tracker.toolResultCount = last.before.tracker.toolResultCount
       /\ ~last.result

\* The second request with the same single functionResponse part is counted
\* again and, with freq = 2, is answered with a nudge.
GeminiRecountWitness ==
    /\ SameContentsAgain
    /\ Cardinality(FunctionResponses(last.before.data)) = 1
    /\ last.prev.before.tracker.toolResultCount = 0
    /\ last.before.tracker.toolResultCount = 1
    /\ tracker.toolResultCount = 2
    /\ last.freq = 2
    /\ last.result


\* The positions at which s occurs in a text.
OccurrencesIn(text, s) ==
    {i \in 1..(Len(text) - Len(s) + 1) : SubSeq(text, i, i + Len(s) - 1) = s}

\* The occurrences of s in the texts of the parts of an array.
OccurrencesInParts(parts, s) ==
    UNION {{<<j, i>> : i \in OccurrencesIn(parts[j].text, s)} :
           j \in {k \in 1..Len(parts) : parts[k].text # UndefinedPath}}

\* How often s occurs in a turn of the request in flight.
TimesInTurn(turn, s) ==
    IF body.format = "gemini"
    THEN Cardinality(OccurrencesInParts(turn.parts.v, s))
    ELSE IF turn.content.t = "string"
    THEN Cardinality(OccurrencesIn(turn.content.s, s))
    ELSE Cardinality(OccurrencesInParts(turn.content.v, s))

\* The turns the call before the one in progress has changed.
TurnsPut ==
    {i \in 1..Len(last.before.data) : last.before.data[i] # last.prev.before.data[i]}

\* The call before the one in progress has put its instruction into a turn
\* and the call in progress is given the same instruction.
SynthAgain ==
    /\ last.op \in SynthOps
    /\ last.prev # Idle
    /\ last.prev.result
    /\ TurnsPut # {}
    /\ last.instruction = last.prev.instruction

\* C19: once injectSynth, injectSynthResponses or injectSynthGemini has put
\* an instruction into the target user turn, the same call on the same
\* array returns false and leaves the array as it is, and the instruction
\* occurs once in that turn.
SynthIdempotent ==
    SynthAgain =>
       /\ ~last.result
       /\ body.data = last.before.data
       /\ \A i \in TurnsPut : TimesInTurn(body.data[i], last.instruction) = 1

\* The second of two injections of one instruction into a turn whose
\* content is a string.
SynthIdempotentWitness ==
    /\ SynthAgain
    /\ last.op = "injectSynth"
    /\ \E i \in TurnsPut : body.data[i].content.t = "string"
    /\ ~last.result


(***************************************************************************)
(* The match resolver                                                      *)
(***************************************************************************)
\* The positions (from 1) of the given messages whose extracted content
\* contains the search string of the call in progress.
Containing(msgs) ==
    {i \in 1..Len(msgs) : Includes(extractMessageContent(msgs[i]), last.searchString)}

\* The call returned the message at position i.
Returned(i) ==
    /\ last.result.ok
    /\ last.result.messageId = last.messages[i].info.id
    /\ last.result.messageIndex = i - 1

Ambiguous == ~last.result.ok /\ last.result.error = "multiple matches"

\* The messages before the last one, or the only one.
Searchable ==
    IF Len(last.messages) > 1
    THEN SubSeq(last.messages, 1, Len(last.messages) - 1) ELSE last.messages

\* C20, as stated: if exactly one message, at any position, the last
\* included, contains the search string, findStringInMessages returns it; if
\* two or more contain it, the call fails with the multiple-matches error.
ResolverExactnessAsStated ==
    last.op = "findStringInMessages" =>
       /\ \A i \in 1..Len(last.messages) :
             Containing(last.messages) = {i} => Returned(i)
       /\ Cardinality(Containing(last.messages)) >= 2 => Ambiguous

\* C20, amended: the statement holds for the searchable messages, which are
\* all but the last when there are two or more; the last message is
\* returned when it contains the string and no searchable message matches
\* exactly or by score.
ResolverExactness ==
    last.op = "findStringInMessages" =>
       /\ \A i \in 1..Len(Searchable) : Containing(Searchable) = {i} => Returned(i)
       /\ Cardinality(Containing(Searchable)) >= 2 => Ambiguous
       /\ ( /\ Containing(Searchable) = {}
            /\ \A i \in 1..Len(Searchable) : last.scores[i] < last.fuzzyConfig.minScore
            /\ Len(last.messages) \in Containing(last.messages) )
          => Returned(Len(last.messages))

\* The last message and one message before it contain the string, and the
\* earlier one is returned.
ResolverExactnessWitness ==
    /\ last.op = "findStringInMessages"
    /\ Len(last.messages) = MaxSession
    /\ Containing(last.messages) = {1, MaxSession}
    /\ Returned(1)


\* The searchable messages that score at least minScore.
Qualified ==
    {i \in 1..Len(Searchable) : last.scores[i] >= last.fuzzyConfig.minScore}

\* Message i is at least minGap above every other qualified message.
StandsOut(i) ==
    \A j \in Qualified \ {i} :
       last.scores[i] - last.scores[j] >= last.fuzzyConfig.minGap

\* No searchable message contains the string and some message qualifies.
FuzzyCase ==
    /\ last.op = "findStringInMessages"
    /\ Containing(Searchable) = {}
    /\ Qualified # {}

\* C21: when no searchable message contains the search string and at least
\* one scores minScore or more, findStringInMessages returns the
\* highest-scoring message exactly when it is the only one at or above
\* minScore or is at least minGap above the runner-up, and fails with the
\* multiple-matches error otherwise; no call returns a message that scores
\* below minScore and does not contain the string.
FuzzyNeverGuesses ==
    /\ FuzzyCase =>
          IF \E i \in Qualified : StandsOut(i)
          THEN \E i \in Qualified : StandsOut(i) /\ Returned(i)
          ELSE Ambiguous
    /\ (last.op = "findStringInMessages" /\ last.result.ok) =>
          \/ last.result.messageIndex + 1 \in Containing(last.messages)
          \/ last.scores[last.result.messageIndex + 1] >= last.fuzzyConfig.minScore

\* Two messages qualify, the better one is exactly minGap above the other
\* and is returned.
FuzzyNeverGuessesWitness ==
    /\ FuzzyCase
    /\ Cardinality(Qualified) = 2
    /\ \E i \in Qualified :
          /\ \E j \in Qualified : last.scores[i] - last.scores[j] = last.fuzzyConfig.minGap
          /\ Returned(i)


NotFound == ~last.result.ok /\ last.result.error = "not found"

\* None of the given messages contains the string or scores minScore.
NoMatchAmong(msgs) ==
    /\ Containing(msgs) = {}
    /\ \A i \in 1..Len(msgs) : last.scores[i] < last.fuzzyConfig.minScore

\* The last message contains the string.
LastContains ==
    /\ Len(last.messages) > 0
    /\ Len(last.messages) \in Containing(last.messages)

\* A successful call names a message by its id and its index.
ReturnsAMessage ==
    last.result.ok =>
       /\ last.result.messageIndex + 1 \in 1..Len(last.messages)
       /\ last.messages[last.result.messageIndex + 1].info.id = last.result.messageId

\* All messages but the last.
AllButLast == SubSeq(last.messages, 1, Len(last.messages) - 1)

\* C22, as stated: when none of the messages but the last matches exactly
\* or by score, findStringInMessages returns the last message if it
\* contains the string and fails with the not-found error otherwise; the
\* last message is returned in this case only; a successful return names the
\* message at messageIndex.
LastResortAsStated ==
    last.op = "findStringInMessages" =>
       /\ NoMatchAmong(AllButLast) =>
             IF LastContains THEN Returned(Len(last.messages)) ELSE NotFound
       /\ (last.result.ok /\ last.result.messageIndex = Len(last.messages) - 1)
             => NoMatchAmong(AllButLast)
       /\ ReturnsAMessage

\* C22, amended: the searchable messages are all but the last when there
\* are two or more messages, and the only message when there is one; with
\* that, when no searchable message matches exactly or by score the last
\* message is returned if it contains the string and the call fails with
\* the not-found error otherwise, the last of two or more messages is
\* returned in this case only, and a successful return names the message
\* at messageIndex.
LastResortAndNotFound ==
    last.op = "findStringInMessages" =>
       /\ NoMatchAmong(Searchable) =>
             IF LastContains THEN Returned(Len(last.messages)) ELSE NotFound
       /\ ( /\ last.result.ok
            /\ Len(last.messages) > 1
            /\ last.result.messageIndex = Len(last.messages) - 1 )
             => NoMatchAmong(Searchable)
       /\ ReturnsAMessage

\* The last of three messages is the only one that contains the string, no
\* other reaches minScore, and the last is returned.
LastResortAndNotFoundWitness ==
    /\ last.op = "findStringInMessages"
    /\ Len(last.messages) = MaxSession
    /\ NoMatchAmong(Searchable)
    /\ LastContains
    /\ Returned(MaxSession)


(***************************************************************************)
(* The Responses format descriptor                                         *)
(***************************************************************************)
\* Item i of the array before the call is a tool output whose call_id is
\* the given id up to letter case.
MatchesID(i, toolId) ==
    /\ last.before.data[i].type = "function_call_output"
    /\ last.before.data[i].call_id # Undefined
    /\ ToLowerCase(last.before.data[i].call_id) = ToLowerCase(toolId)

\* C23: replaceToolOutput of the Responses format replaces the output of
\* every function_call_output item whose call_id is the tool id up to
\* letter case, returns true exactly when some item matched, keeps length
\* and order of the array and leaves the other items as they were.
ReplaceToolOutputAll ==
    last.op = "replaceToolOutput" =>
       /\ Len(body.data) = Len(last.before.data)
       /\ \A i \in 1..Len(last.before.data) :
             body.data[i] =
                IF MatchesID(i, last.toolId)
                THEN [last.before.data[i] EXCEPT !.output = last.prunedMessage]
                ELSE last.before.data[i]
       /\ last.result = (\E i \in 1..Len(last.before.data) : MatchesID(i, last.toolId))

\* Two items carry the id, in different letter case, and both are replaced.
ReplaceToolOutputAllWitness ==
    /\ last.op = "replaceToolOutput"
    /\ Len(last.before.data) = 2
    /\ last.before.data[1].call_id # last.before.data[2].call_id
    /\ \A i \in 1..2 : MatchesID(i, last.toolId)
    /\ \A i \in 1..2 : body.data[i].output = PRUNED_CONTENT_MESSAGE
    /\ last.result

\* The tool-output items of an array.
ToolOutputItems(data) ==
    {i \in 1..Len(data) : data[i].type = "function_call_output"}

\* C24: for a Responses array for which hasToolOutputs is true,
\* extractToolOutputs followed by replaceToolOutput for each extracted id
\* leaves hasToolOutputs true, the length of the array unchanged and the
\* output of every function_call_output item equal to the placeholder.
AdapterSymmetry ==
    last.op = "replaceExtracted" =>
       /\ ToolOutputItems(body.data) # {}
       /\ Len(body.data) = Len(last.before.data)
       /\ \A i \in ToolOutputItems(body.data) :
             body.data[i].output = PRUNED_CONTENT_MESSAGE

\* A tool output without call_id stands next to one with a call_id: the
\* second is replaced, the first keeps its output.
AdapterSymmetryWitness ==
    /\ last.op = "replaceExtracted"
    /\ Len(last.outputs) = 1
    /\ \E i, j \in ToolOutputItems(body.data) :
          /\ body.data[i].call_id = Undefined
          /\ body.data[i].output # PRUNED_CONTENT_MESSAGE
          /\ body.data[j].output = PRUNED_CONTENT_MESSAGE


(***************************************************************************)
(* The session state and the host transport                                *)
(***************************************************************************)
\* The values a loaded state stands for: absent ones are the defaults.
PersistedToolIds(persisted) ==
    IF persisted # NullState /\ "toolIds" \in DOMAIN persisted.prune
    THEN persisted.prune.toolIds ELSE <<>>

PersistedStat(persisted, key) ==
    IF persisted # NullState /\ persisted.stats # UndefinedObj
          /\ key \in DOMAIN persisted.stats
    THEN persisted.stats[key] ELSE 0

\* C25: ensureSessionInitialized(S) on a state whose sessionId is S changes
\* nothing and does not load; on a state with another sessionId or null it
\* sets sessionId to S, empties the toolParameters cache and leaves prune
\* and stats at the values loaded for S, or at the empty defaults when the
\* load returns null, so that nothing of the previous session is left.
SessionLifecycle ==
    last.op = "ensureSessionInitialized" =>
       IF last.before.sessionId = last.sessionId
       THEN session = last.before /\ ~last.loaded
       ELSE /\ last.loaded
            /\ session.sessionId = last.sessionId
            /\ DOMAIN session.toolParameters = {}
            /\ session.prune = [toolIds |-> PersistedToolIds(last.persisted)]
            /\ session.stats =
                  [pruneTokenCounter |-> PersistedStat(last.persisted, "pruneTokenCounter"),
                   totalPruneTokens |-> PersistedStat(last.persisted, "totalPruneTokens")]

\* A session with a pruned tool id and a cached parameter is left for
\* another one for which nothing is persisted.
SessionLifecycleWitness ==
    /\ last.op = "ensureSessionInitialized"
    /\ last.before.sessionId = "s1"
    /\ last.sessionId = "s2"
    /\ last.before.prune.toolIds # <<>>
    /\ DOMAIN last.before.toolParameters # {}
    /\ last.persisted = NullState
    /\ session.prune.toolIds = <<>>


\* C26: a failing session.list() makes getAllPrunedIds yield no pruned ids
\* without the failure reaching the caller, and a failing
\* session.messages() makes fetchSessionMessages return undefined.
TransportDegrades ==
    /\ (last.op = "getAllPrunedIds" /\ last.listed \in {Throws, NoData}) =>
          /\ ~last.result.thrown
          /\ last.result.allPrunedIds = {}
    /\ (last.op = "fetchSessionMessages" /\ last.response \in {Throws, NoData}) =>
          /\ ~last.result.thrown
          /\ last.result.value = UndefinedValue

\* session.list() throws while ids are recorded as pruned, and the call of
\* getAllPrunedIds ends with that exception.
TransportThrowsWitness ==
    /\ last.op = "getAllPrunedIds"
    /\ last.listed = Throws
    /\ DOMAIN last.prunedIds # {}
    /\ last.result.thrown


(***************************************************************************)
(* Sweeps: the counter, protected messages, the limit                      *)
(***************************************************************************)
\* C28: a sweep that prunes at least one message adds exactly one to
\* counters.sweeps and a sweep that prunes none leaves it; an unlimited
\* sweep repeated on the same message list prunes nothing and leaves every
\* counter as it was.
SweepCounter ==
    last.op = "sweep" =>
       /\ state.counters.sweeps =
             last.pre.counters.sweeps + (IF last.prunedIDs # <<>> THEN 1 ELSE 0)
       /\ (last.before.sweep /\ last.before.limit = NoLimit /\ last.limit = NoLimit) =>
             /\ last.prunedIDs = <<>>
             /\ state.counters = last.pre.counters

\* An unlimited sweep that pruned something is followed by another one,
\* which prunes nothing.
SweepCounterWitness ==
    /\ last.op = "sweep"
    /\ last.before.sweep
    /\ last.before.limit = NoLimit
    /\ last.limit = NoLimit
    /\ last.before.prunedIDs # <<>>
    /\ last.pre.counters.sweeps > 0
    /\ state.counters = last.pre.counters

\* The call in progress ran a sweep: sweep itself, dcp_prune in sweep mode,
\* or the sweep subcommand of /dcp.
SweepRan ==
    \/ last.op = "sweep"
    \/ last.op = "dcp_prune" /\ last.result.mode = "sweep"
    \/ last.op = "dcpCommand" /\ last.sweep.swept

\* The message list the sweep in progress was handed.
SweptMessages ==
    IF last.op = "dcpCommand"
    THEN (IF last.runtime = UndefinedValue THEN <<>> ELSE last.runtime.messages.v)
    ELSE messages

\* What the sweep in progress returned.
SweepResultOfCall ==
    IF last.op = "dcpCommand" THEN last.sweep.result
    ELSE [prunedIDs |-> last.prunedIDs, protectedIDs |-> last.protectedIDs]

\* The ids of the tool-like messages in the range of the sweep in progress,
\* strictly after the last user message, that had no record when it began
\* and are protected.
SkippedProtected ==
    {SweptMessages[i].id : i \in
       {k \in 1..Len(SweptMessages) :
          /\ isToolLikeMessage(SweptMessages[k])
          /\ \A j \in k..Len(SweptMessages) : SweptMessages[j].role # "user"
          /\ SweptMessages[k].id \notin DOMAIN last.pre.prunedByID
          /\ NameProtected(SweptMessages[k]) \/ PathProtected(SweptMessages[k])}}

\* A pruneByIDs call returns in protectedIDs every id it was given whose
\* message is in the list, had no record, and is protected.
ProtectedReferenceReported ==
    last.op = "pruneByIDs" =>
       \A i \in 1..Len(messages) :
          (/\ messages[i].id \in Range(last.messageIDs)
           /\ messages[i].id \notin DOMAIN last.pre.prunedByID
           /\ NameProtected(messages[i]) \/ PathProtected(messages[i]))
          => messages[i].id \in Range(last.protectedIDs)

\* The reply of /dcp sweep, from what the sweep returned.
SweepReplyText(result) ==
    "sweep pruned=" \o ToString(Len(result.prunedIDs))
    \o " protected=" \o ToString(Len(result.protectedIDs))
    \o " candidates=" \o ToString(result.candidateCount)
    \o " limit=" \o (IF result.usedLimit = NullLimit THEN "all"
                     ELSE ToString(result.usedLimit.n))

\* C27 as stated: every prune operation that skips a protected tool message
\* in its range returns the id of the message in protectedIDs, and the
\* sweep command counts it in its protected= field.
ProtectedReportedAsStated ==
    /\ ProtectedReferenceReported
    /\ SweepRan => SkippedProtected \subseteq Range(SweepResultOfCall.protectedIDs)
    /\ (last.op = "dcpCommand" /\ last.sweep.swept) =>
          last.reply = SweepReplyText(last.sweep.result)

\* C27: a pruneByIDs call returns every protected message it was asked for
\* in protectedIDs; a sweep (sweep, dcp_prune in sweep mode, /dcp sweep)
\* prunes no protected message and leaves the protected messages of its
\* range out of its candidates, so that its protectedIDs is empty and the
\* command prints the length of that list, 0, in its protected= field.
ProtectedReported ==
    /\ ProtectedReferenceReported
    /\ SweepRan =>
          /\ SweepResultOfCall.protectedIDs = <<>>
          /\ SkippedProtected \cap Range(SweepResultOfCall.prunedIDs) = {}
          /\ SkippedProtected \cap DOMAIN state.prunedByID = {}
    /\ (last.op = "dcpCommand" /\ last.sweep.swept) =>
          last.reply = SweepReplyText(last.sweep.result)

\* /dcp sweep pruned a message and passed over a protected tool message of
\* its range without naming it.
ProtectedReportedWitness ==
    /\ last.op = "dcpCommand"
    /\ last.sweep.swept
    /\ last.sweep.result.prunedIDs # <<>>
    /\ SkippedProtected # {}
    /\ last.sweep.result.protectedIDs = <<>>

\* The word after the subcommand of the command in progress, <<>> when
\* there is none.
CommandNumberWord ==
    IF Len(CommandArgs(last.rawInput)) >= 2 THEN CommandArgs(last.rawInput)[2] ELSE <<>>

\* The call in progress is a sweep that was given a number as its limit:
\* sweep with a numeric limit, or /dcp sweep n with n a number.
NumericLimitSupplied ==
    \/ last.op = "sweep" /\ last.limit.kind = "number"
    \/ /\ last.op = "dcpCommand"
       /\ last.sweep.swept
       /\ ~parseInt(CommandNumberWord).nan

SuppliedLimit ==
    IF last.op = "sweep" THEN last.limit.n ELSE parseInt(CommandNumberWord).n

PrunedBySweep ==
    IF last.op = "sweep" THEN last.prunedIDs ELSE last.sweep.result.prunedIDs

\* C30: a sweep that is given a numeric limit L >= 0, L = 0 included, prunes
\* at most L messages, and the messages it prunes are the last of its
\* candidates.
SweepLimitAtMost ==
    (NumericLimitSupplied /\ SuppliedLimit >= 0) =>
       /\ Len(PrunedBySweep) <= SuppliedLimit
       /\ last.op = "sweep" =>
             \E from \in 1..(Len(last.candidates) + 1) :
                last.prunedIDs = SubSeq(last.candidates, from, Len(last.candidates))

\* The same for the limits above 0.
SweepLimitAtMostPositive ==
    (NumericLimitSupplied /\ SuppliedLimit > 0) =>
       /\ Len(PrunedBySweep) <= SuppliedLimit
       /\ last.op = "sweep" =>
             \E from \in 1..(Len(last.candidates) + 1) :
                last.prunedIDs = SubSeq(last.candidates, from, Len(last.candidates))

\* /dcp sweep 0 pruned two messages and reports that it used no limit.
SweepLimitZeroWitness ==
    /\ last.op = "dcpCommand"
    /\ last.sweep.swept
    /\ ~parseInt(CommandNumberWord).nan
    /\ parseInt(CommandNumberWord).n = 0
    /\ Len(last.sweep.result.prunedIDs) = 2
    /\ last.sweep.result.usedLimit = NullLimit

(***************************************************************************)
(* Registration with the host                                              *)
(***************************************************************************)
\* The attempts of the load in progress for one thing to register: a tool
\* by its name, the command by either of its names.
AttemptsFor(names) ==
    LET Named(attempt) == attempt.call.name \in names
    IN SelectSeq(host.attempts, Named)

\* The styles in the order C29 fixes, as (shape, name written with a slash
\* or not, payload with execute or not).
StyleOf(attempt) ==
    <<attempt.call.shape,
      attempt.call.name \in {"/dcp"},
      "execute" \in attempt.call.keys>>

ToolStyleOrder ==
    <<(<<"object", FALSE, TRUE>>), (<<"named", FALSE, TRUE>>),
      (<<"object", FALSE, FALSE>>)>>

CommandStyleOrder ==
    <<(<<"object", FALSE, TRUE>>), (<<"named", FALSE, TRUE>>),
      (<<"named", TRUE, TRUE>>), (<<"object", TRUE, TRUE>>)>>

\* The attempts follow the order from its start, every attempt before the
\* last threw, and all styles were tried unless the last attempt returned.
FirstAccepted(attempts, order) ==
    /\ Len(attempts) \in 1..Len(order)
    /\ \A i \in 1..Len(attempts) : StyleOf(attempts[i]) = order[i]
    /\ \A i \in 1..(Len(attempts) - 1) : attempts[i].outcome = "threw"
    /\ attempts[Len(attempts)].outcome = "threw" => Len(attempts) = Len(order)

\* How often the host has registered something under one of the names.
TimesRegistered(names) ==
    Cardinality({i \in 1..Len(host.registry) : host.registry[i].call.name \in names})

\* The host has a method of the name and the extension is enabled.
Offers(method) ==
    /\ host.enabled
    /\ host.api # UndefinedValue
    /\ method \in DOMAIN host.api
    /\ host.api[method].t = "function"

\* The host's registerCommand returns from some call that names the
\* command "dcp", of those the plugin makes.
AcceptsPlainName ==
    \E call \in host.api.registerCommand.accepts :
       call.name = "dcp" /\ "execute" \in call.keys

\* C29: register tries the styles of each tool and of the command in a
\* fixed order and stops at the first call that does not throw, so that the
\* host registers dcp_prune, dcp_distill and the command at most once each;
\* the command is registered as "dcp" when the host accepts a "dcp" style
\* and as "/dcp" only after both "dcp" attempts threw; register never
\* throws, and calls nothing on a host without the method or with the
\* extension disabled.
RegistrationFallback ==
    host.loaded =>
       /\ ~host.thrown
       /\ \A name \in {"dcp_prune", "dcp_distill"} :
             /\ TimesRegistered({name}) <= 1
             /\ IF Offers("registerTool")
                THEN FirstAccepted(AttemptsFor({name}), ToolStyleOrder)
                ELSE AttemptsFor({name}) = <<>>
       /\ TimesRegistered({"dcp", "/dcp"}) <= 1
       /\ IF Offers("registerCommand")
          THEN /\ FirstAccepted(AttemptsFor({"dcp", "/dcp"}), CommandStyleOrder)
               /\ AcceptsPlainName => TimesRegistered({"dcp"}) = 1
               /\ TimesRegistered({"/dcp"}) = 1 =>
                     /\ ~AcceptsPlainName
                     /\ Len(AttemptsFor({"dcp"})) = 2
          ELSE AttemptsFor({"dcp", "/dcp"}) = <<>>
       /\ \A i \in 1..Len(host.registry) : host.registry[i].outcome = "returned"

\* A host took dcp_prune from the first call, dcp_distill only from the
\* third, and the command only under "/dcp" as an object, after three calls
\* that threw.
RegistrationFallbackWitness ==
    /\ host.loaded
    /\ Len(AttemptsFor({"dcp_prune"})) = 1
    /\ Len(AttemptsFor({"dcp_distill"})) = 3
    /\ Len(AttemptsFor({"dcp", "/dcp"})) = 4
    /\ Len(host.registry) = 3
    /\ host.registry[3].call.name = "/dcp"
    /\ host.registry[3].call.shape = "object"

(***************************************************************************)
(* Overlapping calls of ensureSessionInitialized                           *)
(***************************************************************************)
\* The state holds what is persisted for the session: the stored toolIds
\* and stats, the empty defaults when nothing is stored.
HoldsPersistedOf(sessionId) ==
    /\ session.prune.toolIds = PersistedToolIds(loads.storage[sessionId])
    /\ session.stats.pruneTokenCounter
          = PersistedStat(loads.storage[sessionId], "pruneTokenCounter")
    /\ session.stats.totalPruneTokens
          = PersistedStat(loads.storage[sessionId], "totalPruneTokens")

\* C31: when calls for different sessions have overlapped at the load and
\* all have completed, the prune.toolIds and stats of the state are those
\* persisted for the session state.sessionId names; a call never installs
\* the pruned tool ids loaded for one session while state.sessionId names
\* another.
SessionIsolation ==
    (loads.resolved.call # 0 /\ loads.resolved.loaded) =>
       /\ loads.storage[loads.resolved.sessionId] # NullState =>
             session.sessionId = loads.resolved.sessionId
       /\ (loads.resolved.overlapped /\ loads.waiting = <<>>) =>
             HoldsPersistedOf(session.sessionId)

\* The calls for s1 and s2 overlapped and have completed; the state names
\* s2 and holds the pruned tool ids persisted for s1, which are not those of
\* s2.
SessionMixedWitness ==
    /\ loads.resolved.call # 0
    /\ loads.resolved.loaded
    /\ loads.resolved.overlapped
    /\ loads.waiting = <<>>
    /\ session.sessionId = "s2"
    /\ loads.storage["s1"] # NullState
    /\ session.prune.toolIds = loads.storage["s1"].prune.toolIds
    /\ session.prune.toolIds # PersistedToolIds(loads.storage["s2"])

\* C32: when a call of ensureSessionInitialized for S resolves and a
\* snapshot of S exists, the state holds the persisted prune.toolIds and
\* stats of S, also when the call started while another call for S waited
\* for its load.
HydrationBeforeUse ==
    (loads.resolved.call # 0
     /\ loads.storage[loads.resolved.sessionId] # NullState) =>
       HoldsPersistedOf(loads.resolved.sessionId)

\* A second call for s1 has returned while the first call for s1 waits for
\* its load: the state names s1, a snapshot with pruned tool ids exists, and
\* the state holds none of them.
HydrationSkippedWitness ==
    /\ loads.resolved.call # 0
    /\ ~loads.resolved.loaded
    /\ loads.resolved.sessionId = "s1"
    /\ \E i \in 1..Len(loads.waiting) : loads.waiting[i].sessionId = "s1"
    /\ \A i \in 1..Len(loads.waiting) : loads.waiting[i].sessionId = "s1"
    /\ session.sessionId = "s1"
    /\ loads.storage["s1"] # NullState
    /\ loads.storage["s1"].prune.toolIds # <<>>
    /\ session.prune.toolIds = <<>>

(***************************************************************************)
(* The /dcp command and the state                                          *)
(***************************************************************************)
\* The command in progress spells the sweep subcommand, in any letter case.
IsSweepCommand ==
    /\ CommandArgs(last.rawInput) # <<>>
    /\ toLowerCaseChars(CommandArgs(last.rawInput)[1]) = <<"s", "w", "e", "e", "p">>

\* C33: /dcp context, /dcp stats, an empty or unknown subcommand, and every
\* /dcp command issued while config.commands.enabled is false leave
\* prunedByID, counters and distillations as they were; a /dcp command adds
\* PrunedRecords only when it is a sweep and the commands are enabled.
CommandFrame ==
    last.op = "dcpCommand" =>
       /\ (~IsSweepCommand \/ ~config.commands.enabled) =>
             /\ state.prunedByID = last.pre.prunedByID
             /\ state.counters = last.pre.counters
             /\ state.distillations = last.pre.distillations
             /\ state.distillationBySourceID = last.pre.distillationBySourceID
       /\ state.distillations = last.pre.distillations
       /\ \A id \in DOMAIN last.pre.prunedByID :
             /\ id \in DOMAIN state.prunedByID
             /\ state.prunedByID[id] = last.pre.prunedByID[id]

\* /dcp sweep is issued with the commands disabled, on a message list with
\* a sweep candidate and a state that holds a record and a distillation: the
\* reply says so and the state is as it was.
CommandFrameWitness ==
    /\ last.op = "dcpCommand"
    /\ IsSweepCommand
    /\ ~config.commands.enabled
    /\ last.runtime # UndefinedValue
    /\ \E i \in 1..Len(messages) :
          /\ isToolLikeMessage(messages[i])
          /\ ~(NameProtected(messages[i]) \/ PathProtected(messages[i]))
          /\ AfterLastUser(i)
          /\ messages[i].id \notin DOMAIN state.prunedByID
    /\ state.distillations # <<>>
    /\ last.reply = "dcp commands are disabled by config"
    /\ state.prunedByID = last.pre.prunedByID

(***************************************************************************)
(* Invariants of the pruning state                                         *)
(***************************************************************************)
\* The sum of the chars fields of the records of the ids in S.
RECURSIVE RecordedChars(_)
RecordedChars(S) ==
    IF S = {} THEN 0
    ELSE LET id == CHOOSE x \in S : TRUE
         IN state.prunedByID[id].chars + RecordedChars(S \ {id})

\* C36: in every state reached by pruneByIDs, sweep, dcp_prune, dcp_distill
\* and /dcp commands, counters.prunedMessages is the number of entries of
\* prunedByID and counters.prunedChars is the sum of the chars of the
\* PrunedRecords.
CounterConsistency ==
    /\ state.counters.prunedMessages = Cardinality(DOMAIN state.prunedByID)
    /\ state.counters.prunedChars = RecordedChars(DOMAIN state.prunedByID)

\* A /dcp sweep has pruned a message of a state that held the record of a
\* distilled message of another size.
CounterConsistencyWitness ==
    /\ last.op = "dcpCommand"
    /\ last.sweep.swept
    /\ Len(last.sweep.result.prunedIDs) = 1
    /\ Cardinality(DOMAIN state.prunedByID) = 2
    /\ \E id \in DOMAIN last.pre.prunedByID :
          /\ last.pre.prunedByID[id].reason = "distilled"
          /\ last.pre.prunedByID[id].chars
                # state.prunedByID[last.sweep.result.prunedIDs[1]].chars
    /\ state.counters.prunedMessages = 2

\* A step keeps every PrunedRecord as it is.
RecordsKept ==
    \A id \in DOMAIN state.prunedByID :
       /\ id \in DOMAIN state'.prunedByID
       /\ state'.prunedByID[id] = state.prunedByID[id]

\* The view in progress shows, for every message with a record, the
\* placeholder that the reason and the distillationID of the record spell.
ViewFromRecords ==
    last.op = "createTransformedView" =>
       \A i \in 1..Len(messages) :
          HasRecord(messages[i]) =>
             last.view[i].content =
                "[dcp-pruned id=" \o messages[i].id
                \o " reason=" \o state.prunedByID[messages[i].id].reason
                \o (IF state.prunedByID[messages[i].id].distillationID = Undefined
                    THEN ""
                    ELSE " distilled="
                         \o state.prunedByID[messages[i].id].distillationID)
                \o "]"

\* C37: no operation removes or overwrites a PrunedRecord, so the reason and
\* the distillationID of a pruned message never change, and every
\* transformed view renders for it the placeholder these two spell.
MonotonePruning == [][RecordsKept]_vars /\ []ViewFromRecords

\* A pruneByIDs call names a message that a sweep had pruned, and the
\* record still says sweep.
MonotonePruningWitness ==
    /\ last.op = "pruneByIDs"
    /\ \E id \in Range(last.messageIDs) :
          /\ id \in DOMAIN last.pre.prunedByID
          /\ last.pre.prunedByID[id].reason = "sweep"
          /\ InList(id)
          /\ state.prunedByID[id] = last.pre.prunedByID[id]


\* The calls of the exposed surface.
SurfaceOps == {"dcp_prune", "dcp_distill", "dcpCommand"}

\* The message is a tool output as the glossary has it: its role is "tool"
\* or it carries a tool name.
ToolOutput(message) == message.role = "tool" \/ message.toolName # Undefined

\* C38: through dcp_prune (with ids and without), dcp_distill and the
\* /dcp command, every PrunedRecord a call creates belongs to a message of
\* the list whose role is "tool" or that carries a toolName; no call of
\* them creates a record for a user turn or another message that is not a
\* tool output.
ToolOutputsOnly ==
    last.op \in SurfaceOps =>
       \A id \in NewRecords :
          \E i \in 1..Len(messages) :
             messages[i].id = id /\ ToolOutput(messages[i])

\* A /dcp sweep pruned a message while an assistant turn without a tool
\* name stood after the last user turn, and left that turn alone.
ToolOutputsOnlyWitness ==
    /\ last.op = "dcpCommand"
    /\ NewRecords # {}
    /\ \E i \in 1..Len(messages) :
          /\ ~ToolOutput(messages[i])
          /\ messages[i].role = "assistant"
          /\ i > lastUserIndex(messages)
          /\ ~HasRecord(messages[i])

\* The records of state.distillations that carry the id d.
RecordsWithID(d) ==
    {k \in 1..Len(state.distillations) : state.distillations[k].id = d}

\* C40: in every state reached through dcp_prune, dcp_distill and the /dcp
\* command, a PrunedRecord with a distillationID d is the record of a
\* message m such that state.distillations holds exactly one record of id
\* d, the sourceMessageIDs of that record is <<m>> and
\* distillationBySourceID maps m to d; and the one source of every record
\* of state.distillations is pruned with the id of the record.
DistillationLink ==
    /\ \A m \in DOMAIN state.prunedByID :
          state.prunedByID[m].distillationID # Undefined =>
             /\ Cardinality(RecordsWithID(state.prunedByID[m].distillationID)) = 1
             /\ \A k \in RecordsWithID(state.prunedByID[m].distillationID) :
                   state.distillations[k].sourceMessageIDs = <<m>>
             /\ m \in DOMAIN state.distillationBySourceID
             /\ state.distillationBySourceID[m] = state.prunedByID[m].distillationID
    /\ \A k \in 1..Len(state.distillations) :
          /\ Len(state.distillations[k].sourceMessageIDs) = 1
          /\ state.distillations[k].sourceMessageIDs[1] \in DOMAIN state.prunedByID
          /\ state.prunedByID[state.distillations[k].sourceMessageIDs[1]].distillationID
                = state.distillations[k].id

\* A dcp_distill call distilled one message after an earlier call had
\* distilled another, and the two records carry different ids.
DistillationLinkWitness ==
    /\ Len(state.distillations) = 2
    /\ last.op = "dcp_distill"
    /\ Len(last.result.distillations) = 1
    /\ state.distillations[1].id # state.distillations[2].id

\* A message pruned by a /dcp sweep stands next to a distilled one.
DistillationLinkMixedWitness ==
    /\ state.distillations # <<>>
    /\ \E m \in DOMAIN state.prunedByID :
          state.prunedByID[m].distillationID = Undefined


\* The ids of a list without the later mentions of an id.
FirstMentions(ids) ==
    LET First(k) == \A j \in 1..(k - 1) : ids[j] # ids[k]
    IN [n \in 1..Cardinality({k \in 1..Len(ids) : First(k)}) |->
          ids[CHOOSE k \in 1..Len(ids) :
                 /\ First(k)
                 /\ Cardinality({j \in 1..k : First(j)}) = n]]

\* The inventory ids a tool call names, in the order of the call.
NamedIDs ==
    IF last.op = "dcp_prune" THEN RequestedIDs(last.input) ELSE TargetIDs(last.input)

\* The messages that the inventory ids of the call name in the numbering
\* `numbered`, each once, in the order of the call.
NamedMessages(numbered) ==
    LET Known(id) == Resolvable(id, numbered)
        known == SelectSeq(NamedIDs, Known)
    IN FirstMentions([k \in 1..Len(known) |-> Resolved(known[k], numbered)])

\* C34: a dcp_prune call with ids, and a dcp_distill call, prune the
\* messages that their inventory ids name in the numbering of the prunable
\* messages of the list as it was when the call started: a later id of the
\* call is not renumbered by the pruning of an earlier one, and no id names
\* a message that was pruned or protected when the call started, so the
\* call reports no protected and no missing message.
NumericResolution ==
    ((last.op = "dcp_prune" /\ RequestedIDs(last.input) # <<>>)
        \/ last.op = "dcp_distill") =>
       /\ last.prunedIDs = NamedMessages(PrunableWith(last.pre.prunedByID))
       /\ last.protectedIDs = <<>>
       /\ last.missingIDs = <<>>
       /\ \A id \in Range(last.prunedIDs) :
             /\ id \notin DOMAIN last.pre.prunedByID
             /\ InList(id)
             /\ ~NameProtected(messages[IndexOf(id)])
             /\ ~PathProtected(messages[IndexOf(id)])

\* A dcp_distill call named "1" and "2" together and pruned the first and
\* the second of the messages that were prunable before the call.
NumericResolutionWitness ==
    /\ last.op = "dcp_distill"
    /\ TargetIDs(last.input) = <<"1", "2">>
    /\ Len(last.prunedIDs) = 2
    /\ last.prunedIDs = PrunableWith(last.pre.prunedByID)

\* A dcp_prune call named "1" twice while two messages were prunable, and
\* left the second alone.
NumericResolutionTwiceWitness ==
    /\ last.op = "dcp_prune"
    /\ RequestedIDs(last.input) = <<"1", "1">>
    /\ Len(PrunableWith(last.pre.prunedByID)) = 2
    /\ last.prunedIDs = <<PrunableWith(last.pre.prunedByID)[1]>>


\* The call in progress is a resolver call with the default thresholds in
\* which no searchable message contains the string and no score is above
\* 100.
DefaultFuzzyCase ==
    /\ last.op = "findStringInMessages"
    /\ last.fuzzyConfig = DEFAULT_FUZZY_CONFIG
    /\ last.fuzzyConfig.minScore = 95 /\ last.fuzzyConfig.minGap = 15
    /\ Containing(Searchable) = {}
    /\ \A i \in 1..Len(last.messages) : last.scores[i] <= 100

\* C39: with minScore 95 and minGap 15 and no score above 100, when no
\* searchable message contains the string, findStringInMessages fails with
\* the multiple-matches error whenever two or more searchable messages
\* score 95 or more, and a call in which some searchable message scores 95
\* or more succeeds only if exactly one does, returning that one.
DefaultThresholds ==
    DefaultFuzzyCase =>
       /\ Cardinality(Qualified) >= 2 => Ambiguous
       /\ (Qualified # {} /\ last.result.ok) =>
             \E i \in Qualified : Qualified = {i} /\ Returned(i)

\* Two searchable messages score 95 and 100 under the default thresholds
\* and the call fails with the multiple-matches error.
DefaultThresholdsWitness ==
    /\ DefaultFuzzyCase
    /\ {last.scores[i] : i \in Qualified} = {95, 100}
    /\ Ambiguous


\* The call in progress is an instruction injection that follows a nudge
\* injection which appended its nudge to the same array.
SynthAfterNudge ==
    /\ last.op \in SynthOps
    /\ last.prev # Idle
    /\ last.prev.op \in NudgeOps
    /\ last.prev.result

\* The entry of a request array is a user turn that is not ignored, in the
\* format of the request.
RealUserTurn(entry) ==
    CASE body.format = "chat" ->
           /\ entry.role = "user"
           /\ ~entry.ignored /\ ~entry.synthetic
           /\ ~(IsObject(entry.info) /\ entry.info.ignored)
           /\ ~(/\ entry.content.t = "array" /\ entry.content.v # <<>>
                /\ \A k \in 1..Len(entry.content.v) : entry.content.v[k].ignored)
      [] body.format = "gemini" -> entry.role = "user" /\ entry.parts.t = "array"
      [] OTHER -> entry.type = "message" /\ entry.role = "user"

\* The positions of the user turns of the request that stood before the
\* appended nudge and are not ignored.
RealUserTurns ==
    {i \in 1..(Len(last.before.data) - 1) : RealUserTurn(last.before.data[i])}

\* What C35 says of an instruction injection that follows an appended
\* nudge: the nudge, which is the last entry, is as it was, and an entry
\* that changed is the latest user turn before the nudge that is not
\* ignored.
NudgeKept ==
    /\ Len(body.data) = Len(last.before.data)
    /\ body.data[Len(body.data)] = last.before.data[Len(body.data)]
    /\ \A i \in 1..Len(body.data) :
          body.data[i] # last.before.data[i] =>
             /\ i \in RealUserTurns
             /\ \A k \in RealUserTurns : k <= i

\* C35: in each of the three formats, when a nudge entry was appended to
\* the data array and the instruction injection runs afterwards, the
\* instruction goes to the latest user turn that is neither ignored nor
\* synthetic and the appended nudge entry is left as it was.
InjectionOrder == SynthAfterNudge => NudgeKept

\* The same for the chat-completions format alone, whose nudge entry
\* carries synthetic = true.
InjectionOrderChat ==
    (SynthAfterNudge /\ last.op = "injectSynth") => NudgeKept

\* A Gemini or Responses request had a user turn before the appended
\* nudge, and the instruction injection wrote into the nudge entry and
\* left the user turn as it was.
InjectionOrderWitness ==
    /\ SynthAfterNudge
    /\ last.op \in {"injectSynthGemini", "injectSynthResponses"}
    /\ RealUserTurns # {}
    /\ body.data[Len(body.data)] # last.before.data[Len(body.data)]
    /\ \A i \in RealUserTurns : body.data[i] = last.before.data[i]

\* A chat-completions request had a user turn before the appended nudge,
\* and the instruction injection wrote into that turn.
InjectionOrderChatWitness ==
    /\ SynthAfterNudge
    /\ last.op = "injectSynth"
    /\ \E i \in RealUserTurns : body.data[i] # last.before.data[i]

====
